---- MODULE Spec2Model ----
(***************************************************************************)
(* Signal computation and composite scoring engine of the XRP terminal     *)
(* (core/signals.py, core/binance_client.py) and the analytics cycle that  *)
(* drives it (workers/analytics_worker.py).                                *)
(*                                                                         *)
(* Floats are modelled as exact numbers (p + q*eps) / (r + s*eps) with     *)
(* integer p, q, r, s and eps = 1e-9, the constant summarize_order_book    *)
(* adds to its denominator.  All coefficients of the model stay far below  *)
(* 1/eps, so the sign of c0 + c1*eps + c2*eps^2 is the sign of its first   *)
(* non-zero coefficient.                                                   *)
(***************************************************************************)
EXTENDS Integers, Sequences, FiniteSets, TLC

\* ------------------------------------------------------------------------
\* Exact arithmetic
\* ------------------------------------------------------------------------
Abs(i) == IF i < 0 THEN -i ELSE i

Sgn(i) == IF i > 0 THEN 1 ELSE IF i < 0 THEN -1 ELSE 0

RECURSIVE Gcd(_, _)
Gcd(a, b) == IF b = 0 THEN a ELSE Gcd(b, a % b)

\* sign of c0 + c1*eps + c2*eps^2
EpsSign(c0, c1, c2) ==
    IF c0 # 0 THEN Sgn(c0) ELSE IF c1 # 0 THEN Sgn(c1) ELSE Sgn(c2)

\* p/r in lowest terms with r > 0
Lowest(p, r) ==
    LET g == Gcd(Abs(p), Abs(r))
    IN  [p |-> (Sgn(r) * p) \div g, q |-> 0, r |-> Abs(r) \div g, s |-> 0]

\* p * s = q * r, given g1 = gcd(p, q) and g2 = gcd(r, s): decided on the
\* coprime pairs, without the products
ProportionalBy(p, q, r, s, g1, g2) ==
    \/ g1 = 0
    \/ g2 = 0
    \/ (p \div g1 = r \div g2 /\ q \div g1 = s \div g2)
    \/ (p \div g1 = -(r \div g2) /\ q \div g1 = -(s \div g2))

\* (p + q*eps) / (r + s*eps) for p, q, r, s without a common factor
NormReduced(p, q, r, s) ==
    LET flip == IF EpsSign(r, s, 0) < 0 THEN -1 ELSE 1
    IN  IF ProportionalBy(p, q, r, s, Gcd(Abs(p), Abs(q)), Gcd(Abs(r), Abs(s)))
        THEN IF r # 0 THEN Lowest(p, r) ELSE Lowest(q, s)
        ELSE [p |-> flip * p, q |-> flip * q, r |-> flip * r, s |-> flip * s]

NormBy(p, q, r, s, g) ==
    IF g = 0 THEN NormReduced(p, q, r, s)
    ELSE NormReduced(p \div g, q \div g, r \div g, s \div g)

\* the number (p + q*eps) / (r + s*eps), in lowest terms, denominator
\* positive; a numerator proportional to the denominator is their ratio
Norm(p, q, r, s) ==
    NormBy(p, q, r, s, Gcd(Gcd(Abs(p), Abs(q)), Gcd(Abs(r), Abs(s))))

Rat(n, d) == Norm(n, 0, d, 0)

Flt(n) == Rat(n, 1)

NumSign(x) == EpsSign(x.p, x.q, 0)

\* sign of x - y
NumCmp(x, y) ==
    EpsSign(x.p * y.r - y.p * x.r,
            x.p * y.s + x.q * y.r - y.p * x.s - y.q * x.r,
            x.q * y.s - y.q * x.s)

NumEq(x, y) == NumCmp(x, y) = 0

NumLe(x, y) == NumCmp(x, y) <= 0

NumLt(x, y) == NumCmp(x, y) < 0

\* x + y; exact when x and y have the same denominator or at most one of
\* them carries eps, the only cases the program produces
Add(x, y) ==
    IF x.r = y.r /\ x.s = y.s
    THEN Norm(x.p + y.p, x.q + y.q, x.r, x.s)
    ELSE IF x.s = 0 /\ y.s = 0
    THEN LET g == Gcd(x.r, y.r)
         IN  Norm(x.p * (y.r \div g) + y.p * (x.r \div g),
                  x.q * (y.r \div g) + y.q * (x.r \div g),
                  (x.r \div g) * y.r, 0)
    ELSE Norm(x.p * y.r + y.p * x.r,
              x.p * y.s + x.q * y.r + y.p * x.s + y.q * x.r,
              x.r * y.r,
              x.r * y.s + x.s * y.r)

Neg(x) == Norm(-x.p, -x.q, x.r, x.s)

Sub(x, y) == Add(x, Neg(y))

\* x * y; exact when at most one of x, y carries eps
Mul(x, y) ==
    Norm(x.p * y.p, x.p * y.q + x.q * y.p, x.r * y.r, x.r * y.s + x.s * y.r)

\* x / y for y # 0
Div(x, y) == Mul(x, Norm(y.r, y.s, y.p, y.q))

NumAbs(x) == IF NumSign(x) < 0 THEN Neg(x) ELSE x

NumMax(x, y) == IF NumLt(x, y) THEN y ELSE x

NumMin(x, y) == IF NumLt(y, x) THEN y ELSE x

\* np.clip(x, lo, hi) = minimum(hi, maximum(x, lo))
Clip(x, lo, hi) == NumMin(NumMax(x, lo), hi)

RECURSIVE SumNum(_)
SumNum(xs) == IF Len(xs) = 0 THEN Flt(0) ELSE Add(SumNum(Tail(xs)), Head(xs))

\* np.mean of a non-empty list of numbers
Mean(xs) == Div(SumNum(xs), Flt(Len(xs)))

\* ------------------------------------------------------------------------
\* Python values and call outcomes
\* ------------------------------------------------------------------------
None == [none |-> TRUE]

\* a value that is not a number (a string in a numeric series)
NonNumeric == [str |-> "x"]

IsNum(v) == DOMAIN v = {"p", "q", "r", "s"}

\* truthiness of a float-or-None value: None and 0.0 are falsy
Truthy(v) == IsNum(v) /\ NumSign(v) # 0

Return(v) == [kind |-> "return", value |-> v]

Raise(e) == [kind |-> "raise", exc |-> e]

\* dict.get(k, default)
Get(d, k, default) == IF k \in DOMAIN d THEN d[k] ELSE default

\* ------------------------------------------------------------------------
\* core/signals.py
\* ------------------------------------------------------------------------
\* compute_oi_leverage_score measuring the OI change from the first point
compute_oi_leverage_score_first(values) ==
    IF Len(values) = 0 THEN Return(Flt(50))
    ELSE
    LET latest == values[Len(values)]
        hasPrev == Len(values) > 1
        prev == values[1]
        oi_raises == hasPrev /\ Truthy(prev.oi) /\ ~IsNum(latest.oi)
        oi_change == IF hasPrev /\ Truthy(prev.oi)
                     THEN Mul(Div(Sub(latest.oi, prev.oi), prev.oi), Flt(100))
                     ELSE Flt(0)
        funding_bias == IF latest.funding # None
                        THEN Mul(latest.funding, Flt(100))
                        ELSE Flt(0)
        ls_skew == IF Truthy(latest.ls_ratio)
                   THEN Mul(Sub(latest.ls_ratio, Flt(1)), Flt(100))
                   ELSE Flt(0)
        score == Add(Add(Add(Flt(50), Mul(Rat(2, 10), oi_change)),
                         Mul(Rat(3, 10), funding_bias)),
                     Mul(Rat(1, 10), ls_skew))
    IN  IF oi_raises THEN Raise("TypeError")
        ELSE Return(Clip(score, Flt(0), Flt(100)))

compute_oi_leverage_score(values) ==
    IF Len(values) = 0 THEN Return(Flt(50))
    ELSE
    LET latest == values[Len(values)]
        hasPrev == Len(values) > 1
        prev == values[Len(values) - 1]
        \* latest.oi - prev.oi is evaluated only when prev.oi is truthy
        oi_raises == hasPrev /\ Truthy(prev.oi) /\ ~IsNum(latest.oi)
        oi_change == IF hasPrev /\ Truthy(prev.oi)
                     THEN Mul(Div(Sub(latest.oi, prev.oi), prev.oi), Flt(100))
                     ELSE Flt(0)
        funding_bias == IF latest.funding # None
                        THEN Mul(latest.funding, Flt(100))
                        ELSE Flt(0)
        ls_skew == IF Truthy(latest.ls_ratio)
                   THEN Mul(Sub(latest.ls_ratio, Flt(1)), Flt(100))
                   ELSE Flt(0)
        score == Add(Add(Add(Flt(50), Mul(Rat(2, 10), oi_change)),
                         Mul(Rat(3, 10), funding_bias)),
                     Mul(Rat(1, 10), ls_skew))
    IN  IF oi_raises THEN Raise("TypeError")
        ELSE Return(Clip(score, Flt(0), Flt(100)))


\* series[-k:]
Window(series, k) ==
    SubSeq(series, IF Len(series) > k THEN Len(series) - k + 1 ELSE 1,
           Len(series))

AllNumeric(xs) == \A i \in 1..Len(xs) : IsNum(xs[i])

ZWindow == 30

BaselineWindow == 24

\* A zscore is the real number sgn * sqrt(sq), sq a non-negative rational:
\* the quotient of a deviation by a standard deviation.
ZeroZ == [sgn |-> 0, sq |-> Flt(0)]

\* sign of z - c for a zscore z and a number c
ZCmp(z, c) ==
    IF z.sgn >= 0 /\ NumSign(c) >= 0 THEN NumCmp(z.sq, Mul(c, c))
    ELSE IF z.sgn >= 0 THEN 1
    ELSE IF NumSign(c) >= 0 THEN -1
    ELSE NumCmp(Mul(c, c), z.sq)

\* largest k in lo..hi with k*k <= x, given lo*lo <= x
RECURSIVE ISqrtIn(_, _, _)
ISqrtIn(lo, hi, x) ==
    IF lo >= hi THEN lo
    ELSE LET mid == (lo + hi + 1) \div 2
         IN  IF mid * mid <= x THEN ISqrtIn(mid, hi, x)
             ELSE ISqrtIn(lo, mid - 1, x)

ZScale == 100

\* the float a zscore is stored as, kept to 1/ZScale (rounded toward zero)
ZToNum(z) ==
    LET t == (z.sq.p * ZScale) \div z.sq.r
        rem == z.sq.p * ZScale - t * z.sq.r
        x == t * ZScale + (rem * ZScale) \div z.sq.r
    IN  Rat(z.sgn * ISqrtIn(0, 46340, x), ZScale)

\* numpy computes in binary floating point, rounding every result to the
\* nearest representable number, ties to even.  A float is m * 2^e with
\* 2^(FloatBits-1) <= |m| < 2^FloatBits, or zero; float64 keeps 53 bits.
FloatBits == 9

FZero == [m |-> 0, e |-> 0]

RECURSIVE BitLen(_)
BitLen(n) == IF n = 0 THEN 0 ELSE 1 + BitLen(n \div 2)

\* the float nearest to n * 2^e
FRound(n, e) ==
    LET a == Abs(n)
        k == BitLen(a) - FloatBits
    IN  IF n = 0 THEN FZero
        ELSE IF k <= 0 THEN [m |-> n * 2^(-k), e |-> e + k]
        ELSE LET q == a \div 2^k
                 rem == a % 2^k
                 half == 2^(k - 1)
                 q1 == IF rem > half \/ (rem = half /\ q % 2 = 1)
                       THEN q + 1 ELSE q
             IN  IF q1 = 2^FloatBits
                 THEN [m |-> Sgn(n) * 2^(FloatBits - 1), e |-> e + k + 1]
                 ELSE [m |-> Sgn(n) * q1, e |-> e + k]

FOf(n) == FRound(n, 0)

\* a + b; an addend below a quarter of the other's last place changes nothing
FAdd(a, b) ==
    IF a.m = 0 THEN b
    ELSE IF b.m = 0 THEN a
    ELSE LET hi == IF a.e >= b.e THEN a ELSE b
             lo == IF a.e >= b.e THEN b ELSE a
             d == hi.e - lo.e
         IN  IF d > FloatBits + 1 THEN hi
             ELSE FRound(hi.m * 2^d + lo.m, lo.e)

FSub(a, b) == FAdd(a, [m |-> -b.m, e |-> b.e])

FMul(a, b) == FRound(a.m * b.m, a.e + b.e)

\* a / b for b # 0: quotient to FloatBits + 3 bits and a sticky bit
FDiv(a, b) ==
    LET num == Abs(a.m) * 2^(FloatBits + 2)
        q == num \div Abs(b.m)
        sticky == IF num % Abs(b.m) = 0 THEN 0 ELSE 1
    IN  IF a.m = 0 THEN FZero
        ELSE FRound(Sgn(a.m) * Sgn(b.m) * (2 * q + sticky),
                    a.e - b.e - FloatBits - 3)

\* the float of a number p/r
FromNum(x) == FDiv(FOf(x.p), FOf(x.r))

ToNum(f) == IF f.e >= 0 THEN Flt(f.m * 2^f.e) ELSE Rat(f.m, 2^(-f.e))

\* the number a float literal n/d denotes
Lit(n, d) == ToNum(FromNum(Rat(n, d)))

\* res += xs[i], ..., xs[Len(xs)]
RECURSIVE SumFrom(_, _, _)
SumFrom(res, xs, i) ==
    IF i > Len(xs) THEN res ELSE SumFrom(FAdd(res, xs[i]), xs, i + 1)

\* accumulator j of the unrolled loop after b blocks of eight
RECURSIVE Lane(_, _, _)
Lane(xs, j, b) ==
    IF b = 1 THEN xs[j] ELSE FAdd(Lane(xs, j, b - 1), xs[8 * (b - 1) + j])

\* np.add.reduce of up to 128 floats: pairwise summation
pairwise_sum(xs) ==
    LET blocks == Len(xs) \div 8
        r == [j \in 1..8 |-> Lane(xs, j, blocks)]
    IN  IF Len(xs) < 8 THEN SumFrom(FZero, xs, 1)
        ELSE SumFrom(FAdd(FAdd(FAdd(r[1], r[2]), FAdd(r[3], r[4])),
                          FAdd(FAdd(r[5], r[6]), FAdd(r[7], r[8]))),
                     xs, 8 * blocks + 1)

\* np.mean of a non-empty list of floats
FloatMean(xs) ==
    FDiv(pairwise_sum([i \in 1..Len(xs) |-> FromNum(xs[i])]), FOf(Len(xs)))

\* dev^2 / variance, the square of dev / sqrt(variance), for variance > 0
SquaredQuotient(dev, variance) ==
    LET k == 2 * dev.e - variance.e
    IN  IF k >= 0 THEN Rat(dev.m * dev.m * 2^k, variance.m)
        ELSE Rat(dev.m * dev.m, variance.m * 2^(-k))

\* a * a
FSquare(a) == FMul(a, a)

\* std if std != 0 else 1.0, on the squares
StdOrOne(std2) == IF std2.m # 0 THEN std2 ELSE FOf(1)

\* dev / sqrt(eff2) as a zscore
ZQuotient(dev, eff2) ==
    [sgn |-> Sgn(dev.m), sq |-> SquaredQuotient(dev, eff2)]

compute_zscore_first(series) ==
    LET arr == Window(series, ZWindow)
        size == Len(arr)
        farr == [i \in 1..size |-> FromNum(arr[i])]
        mean == FloatMean(arr)
        dev == FSub(farr[1], mean)
        \* arr.std(ddof=1) ** 2
        x == [i \in 1..size |-> FSub(farr[i], mean)]
        variance == FDiv(pairwise_sum([i \in 1..size |-> FSquare(x[i])]),
                         FOf(size - 1))
        std2 == IF size > 1 THEN variance ELSE FOf(1)
    IN  IF size = 0 THEN Return(ZeroZ)
        \* numpy cannot reduce an array holding a string or None
        ELSE IF ~AllNumeric(arr) THEN Raise("TypeError")
        ELSE Return(ZQuotient(dev, StdOrOne(std2)))

compute_zscore_whole(series) ==
    LET arr == series
        size == Len(arr)
        farr == [i \in 1..size |-> FromNum(arr[i])]
        mean == FloatMean(arr)
        dev == FSub(farr[size], mean)
        \* arr.std(ddof=1) ** 2
        x == [i \in 1..size |-> FSub(farr[i], mean)]
        variance == FDiv(pairwise_sum([i \in 1..size |-> FSquare(x[i])]),
                         FOf(size - 1))
        std2 == IF size > 1 THEN variance ELSE FOf(1)
    IN  IF size = 0 THEN Return(ZeroZ)
        \* numpy cannot reduce an array holding a string or None
        ELSE IF ~AllNumeric(arr) THEN Raise("TypeError")
        ELSE Return(ZQuotient(dev, StdOrOne(std2)))

compute_zscore(series) ==
    LET arr == Window(series, ZWindow)
        size == Len(arr)
        farr == [i \in 1..size |-> FromNum(arr[i])]
        mean == FloatMean(arr)
        dev == FSub(farr[size], mean)
        \* arr.std(ddof=1) ** 2
        x == [i \in 1..size |-> FSub(farr[i], mean)]
        variance == FDiv(pairwise_sum([i \in 1..size |-> FSquare(x[i])]),
                         FOf(size - 1))
        std2 == IF size > 1 THEN variance ELSE FOf(1)
    IN  IF size = 0 THEN Return(ZeroZ)
        \* numpy cannot reduce an array holding a string or None
        ELSE IF ~AllNumeric(arr) THEN Raise("TypeError")
        ELSE Return(ZQuotient(dev, StdOrOne(std2)))

RegimeLow == Rat(-8, 10)

RegimeHigh == Rat(8, 10)

classify_regime_strict(zscore, low, high) ==
    IF ZCmp(zscore, high) > 0 THEN "high"
    ELSE IF ZCmp(zscore, low) < 0 THEN "low"
    ELSE "normal"

classify_regime(zscore, low, high) ==
    IF ZCmp(zscore, high) >= 0 THEN "high"
    ELSE IF ZCmp(zscore, low) <= 0 THEN "low"
    ELSE "normal"

\* z is the outcome of the one call compute_zscore(volumes); its exception
\* leaves the function
compute_volume_signal_spike(volumes) ==
    IF Len(volumes) = 0
    THEN Return([zscore |-> ZeroZ, regime |-> "normal",
                 baseline |-> Flt(0), latest |-> Flt(0)])
    ELSE
    LET recent == IF Len(volumes) >= BaselineWindow
                  THEN Window(volumes, BaselineWindow) ELSE volumes
    IN  CHOOSE signal \in
            {IF z.kind = "raise" THEN z
             ELSE IF ~AllNumeric(recent) THEN Raise("TypeError")
             ELSE Return([zscore |-> z.value,
                          regime |-> classify_regime(z.value, Rat(-15, 10), Rat(15, 10)),
                          baseline |-> ToNum(FloatMean(recent)),
                          latest |-> volumes[Len(volumes)]]) :
             z \in {compute_zscore(volumes)}} : TRUE

compute_volume_signal_zwindow(volumes) ==
    IF Len(volumes) = 0
    THEN Return([zscore |-> ZeroZ, regime |-> "normal",
                 baseline |-> Flt(0), latest |-> Flt(0)])
    ELSE
    LET recent == IF Len(volumes) >= BaselineWindow
                  THEN Window(volumes, ZWindow) ELSE volumes
    IN  CHOOSE signal \in
            {IF z.kind = "raise" THEN z
             ELSE IF ~AllNumeric(recent) THEN Raise("TypeError")
             ELSE Return([zscore |-> z.value,
                          regime |-> classify_regime(z.value, RegimeLow, RegimeHigh),
                          baseline |-> ToNum(FloatMean(recent)),
                          latest |-> volumes[Len(volumes)]]) :
             z \in {compute_zscore(volumes)}} : TRUE

compute_volume_signal(volumes) ==
    IF Len(volumes) = 0
    THEN Return([zscore |-> ZeroZ, regime |-> "normal",
                 baseline |-> Flt(0), latest |-> Flt(0)])
    ELSE
    LET recent == IF Len(volumes) >= BaselineWindow
                  THEN Window(volumes, BaselineWindow) ELSE volumes
    IN  CHOOSE signal \in
            {IF z.kind = "raise" THEN z
             ELSE IF ~AllNumeric(recent) THEN Raise("TypeError")
             ELSE Return([zscore |-> z.value,
                          regime |-> classify_regime(z.value, RegimeLow, RegimeHigh),
                          baseline |-> ToNum(FloatMean(recent)),
                          latest |-> volumes[Len(volumes)]]) :
             z \in {compute_zscore(volumes)}} : TRUE

compute_flow_signal(net_flows) ==
    IF Len(net_flows) = 0
    THEN Return([net_flow |-> Flt(0), zscore |-> ZeroZ, regime |-> "normal"])
    ELSE
    CHOOSE signal \in
        {IF z.kind = "raise" THEN z
         ELSE Return([net_flow |-> net_flows[Len(net_flows)],
                      zscore |-> z.value,
                      regime |-> classify_regime(z.value, RegimeLow, RegimeHigh)]) :
         z \in {compute_zscore(net_flows)}} : TRUE

\* dict supplied for aggregate_scores when the caller gives none
DefaultWeights ==
    [flow |-> Rat(30, 100), oi |-> Rat(25, 100), volume |-> Rat(20, 100),
     manipulation |-> Rat(15, 100), regulatory |-> Rat(10, 100)]

WeightKeys == {"flow", "oi", "volume", "manipulation", "regulatory"}

\* aggregate_scores with the manipulation score charged as a penalty and
\* the sum returned as it is
aggregate_scores_penalty(flow_score, oi_score, volume_score, manipulation_score, regulatory_score, weights) ==
    LET w == IF weights = None \/ DOMAIN weights = {}
             THEN DefaultWeights ELSE weights
    IN  IF ~(WeightKeys \subseteq DOMAIN w) THEN Raise("KeyError")
        ELSE Return(Sub(Add(Add(Add(Mul(flow_score, w["flow"]),
                                    Mul(oi_score, w["oi"])),
                                Mul(volume_score, w["volume"])),
                            Mul(regulatory_score, w["regulatory"])),
                        Mul(manipulation_score, w["manipulation"])))

\* aggregate_scores with the manipulation score weighted without inversion
aggregate_scores_uninverted(flow_score, oi_score, volume_score, manipulation_score, regulatory_score, weights) ==
    LET w == IF weights = None \/ DOMAIN weights = {}
             THEN DefaultWeights ELSE weights
        total ==
            Add(Add(Add(Add(Mul(flow_score, w["flow"]),
                            Mul(oi_score, w["oi"])),
                        Mul(volume_score, w["volume"])),
                    Mul(manipulation_score, w["manipulation"])),
                Mul(regulatory_score, w["regulatory"]))
    IN  IF ~(WeightKeys \subseteq DOMAIN w) THEN Raise("KeyError")
        ELSE Return(Clip(total, Flt(0), Flt(100)))

aggregate_scores(flow_score, oi_score, volume_score, manipulation_score, regulatory_score, weights) ==
    LET \* `weights or {...}`: None and the empty dict select the defaults
        w == IF weights = None \/ DOMAIN weights = {}
             THEN DefaultWeights ELSE weights
        total ==
            Add(Add(Add(Add(Mul(flow_score, w["flow"]),
                            Mul(oi_score, w["oi"])),
                        Mul(volume_score, w["volume"])),
                    Mul(Sub(Flt(100), manipulation_score), w["manipulation"])),
                Mul(regulatory_score, w["regulatory"]))
    IN  IF ~(WeightKeys \subseteq DOMAIN w) THEN Raise("KeyError")
        ELSE Return(Clip(total, Flt(0), Flt(100)))

\* the values of key k over the events that have it
Present(events, k) ==
    LET has == SelectSeq(events, LAMBDA e : k \in DOMAIN e)
    IN  [i \in 1..Len(has) |-> has[i][k]]

\* compute_regulatory_score averaging each key over the events that have it
compute_regulatory_score_present(events) ==
    IF Len(events) = 0 THEN Return(Flt(25))
    ELSE
    LET threat == IF Len(Present(events, "regulatory_threat")) = 0 THEN Flt(0)
                  ELSE Mean(Present(events, "regulatory_threat"))
        support == IF Len(Present(events, "regulatory_support")) = 0 THEN Flt(0)
                   ELSE Mean(Present(events, "regulatory_support"))
        base == Add(Flt(50), Mul(Sub(support, threat), Flt(50)))
    IN  Return(Clip(base, Flt(0), Flt(100)))

compute_regulatory_score_midpoint(events) ==
    IF Len(events) = 0 THEN Return(Flt(50))
    ELSE
    LET threat == Mean([i \in 1..Len(events) |->
                          Get(events[i], "regulatory_threat", Flt(0))])
        support == Mean([i \in 1..Len(events) |->
                           Get(events[i], "regulatory_support", Flt(0))])
        base == Add(Flt(50), Mul(Sub(support, threat), Flt(50)))
    IN  Return(Clip(base, Flt(0), Flt(100)))

compute_regulatory_score(events) ==
    IF Len(events) = 0 THEN Return(Flt(25))
    ELSE
    LET threat == Mean([i \in 1..Len(events) |->
                          Get(events[i], "regulatory_threat", Flt(0))])
        support == Mean([i \in 1..Len(events) |->
                           Get(events[i], "regulatory_support", Flt(0))])
        base == Add(Flt(50), Mul(Sub(support, threat), Flt(50)))
    IN  Return(Clip(base, Flt(0), Flt(100)))

\* compute_manipulation_hint scoring the signed imbalance
compute_manipulation_hint_signed(order_book_stats, volume_spike) ==
    LET depth_imbalance == Get(order_book_stats, "depth_imbalance", Flt(0))
        rapid_wall_change == NumLt(Rat(1, 2), NumAbs(depth_imbalance))
        risk == Add(Mul(Rat(1, 2), depth_imbalance),
                    IF volume_spike THEN Rat(1, 2) ELSE Flt(0))
        note == IF rapid_wall_change /\ volume_spike THEN "Depth skew + spike"
                ELSE IF rapid_wall_change THEN "Skewed depth"
                ELSE "Calm"
    IN  Return([timestamp |-> None,
                depth_imbalance |-> depth_imbalance,
                rapid_wall_change |-> rapid_wall_change,
                risk_score |-> Clip(risk, Flt(0), Flt(1)),
                note |-> note])

\* compute_manipulation_hint with an inclusive wall-change threshold
compute_manipulation_hint_inclusive(order_book_stats, volume_spike) ==
    LET depth_imbalance == Get(order_book_stats, "depth_imbalance", Flt(0))
        rapid_wall_change == NumLe(Rat(1, 2), NumAbs(depth_imbalance))
        risk == Add(Mul(Rat(1, 2), NumAbs(depth_imbalance)),
                    IF volume_spike THEN Rat(1, 2) ELSE Flt(0))
        note == IF rapid_wall_change /\ volume_spike THEN "Depth skew + spike"
                ELSE IF rapid_wall_change THEN "Skewed depth"
                ELSE "Calm"
    IN  Return([timestamp |-> None,
                depth_imbalance |-> depth_imbalance,
                rapid_wall_change |-> rapid_wall_change,
                risk_score |-> Clip(risk, Flt(0), Flt(1)),
                note |-> note])

compute_manipulation_hint(order_book_stats, volume_spike) ==
    LET depth_imbalance == Get(order_book_stats, "depth_imbalance", Flt(0))
        rapid_wall_change == NumLt(Rat(1, 2), NumAbs(depth_imbalance))
        risk == Add(Mul(Rat(1, 2), NumAbs(depth_imbalance)),
                    IF volume_spike THEN Rat(1, 2) ELSE Flt(0))
        note == IF rapid_wall_change /\ volume_spike THEN "Depth skew + spike"
                ELSE IF rapid_wall_change THEN "Skewed depth"
                ELSE "Calm"
    IN  Return([timestamp |-> None,
                depth_imbalance |-> depth_imbalance,
                rapid_wall_change |-> rapid_wall_change,
                risk_score |-> Clip(risk, Flt(0), Flt(1)),
                note |-> note])

\* ------------------------------------------------------------------------
\* core/binance_client.py
\* ------------------------------------------------------------------------
\* the literal 1e-9
Eps == Norm(0, 1, 1, 0)

\* sum(float(level[1]) for level in levels); a level is <<price, quantity>>
LevelVolume(levels) == SumNum([i \in 1..Len(levels) |-> levels[i][2]])

\* summarize_order_book dividing by bid_volume + ask_volume alone
summarize_order_book_noeps(book) ==
    LET bids == Get(book, "bids", << >>)
        asks == Get(book, "asks", << >>)
        bid_volume == LevelVolume(bids)
        ask_volume == LevelVolume(asks)
        denominator == Add(bid_volume, ask_volume)
    IN  IF NumSign(denominator) = 0 THEN Raise("ZeroDivisionError")
        ELSE Return([bid_volume |-> bid_volume,
                     ask_volume |-> ask_volume,
                     depth_imbalance |->
                         Div(Sub(bid_volume, ask_volume), denominator)])

summarize_order_book(book) ==
    LET bids == Get(book, "bids", << >>)
        asks == Get(book, "asks", << >>)
        bid_volume == LevelVolume(bids)
        ask_volume == LevelVolume(asks)
        denominator == Add(Add(bid_volume, ask_volume), Eps)
    IN  IF NumSign(denominator) = 0 THEN Raise("ZeroDivisionError")
        ELSE Return([bid_volume |-> bid_volume,
                     ask_volume |-> ask_volume,
                     depth_imbalance |->
                         Div(Sub(bid_volume, ask_volume), denominator)])


\* ------------------------------------------------------------------------
\* core/hf_client.py
\* ------------------------------------------------------------------------
Str(s) == [str |-> s]

NeutralClassification ==
    [regulatory_threat |-> Flt(0), regulatory_support |-> Flt(0),
     neutral_unclear |-> Flt(1)]

\* {entry.get("label", "unknown"): entry.get("score", 0.0) for entry in data}
\* read at one label: the last entry carrying it wins
ScoreOf(data, label) ==
    LET at == {i \in 1..Len(data) : Get(data[i], "label", "unknown") = label}
        last == CHOOSE i \in at : \A j \in at : j <= i
    IN  IF at = {} THEN Flt(0) ELSE Get(data[last], "score", Flt(0))

\* hf_token is settings.hf_token; response is what requests.post gives: an
\* exception, or a status code with the decoded body
classify_headline(hf_token, response) ==
    IF hf_token = None \/ hf_token = Str("")
    THEN Return(NeutralClassification)
    ELSE IF response.kind = "raise" THEN response
    \* resp.raise_for_status()
    ELSE IF response.value.status_code >= 400 THEN Raise("HTTPError")
    ELSE LET data == response.value.json
         IN  Return([regulatory_threat |-> ScoreOf(data, "NEG"),
                     regulatory_support |-> ScoreOf(data, "POS"),
                     neutral_unclear |-> ScoreOf(data, "NEU")])


\* ------------------------------------------------------------------------
\* core/config.py.  A str is Str(cs), cs the sequence of its characters; a
\* run of characters other than whitespace, "$", "{" and "}" is one element.
\* ------------------------------------------------------------------------
Whitespace == {" ", "\t"}

RECURSIVE lstrip(_)
lstrip(cs) ==
    IF Len(cs) > 0 /\ Head(cs) \in Whitespace THEN lstrip(Tail(cs)) ELSE cs

RECURSIVE rstrip(_)
rstrip(cs) ==
    IF Len(cs) > 0 /\ cs[Len(cs)] \in Whitespace
    THEN rstrip(SubSeq(cs, 1, Len(cs) - 1)) ELSE cs

strip(cs) == rstrip(lstrip(cs))

startswith(cs, prefix) ==
    Len(cs) >= Len(prefix) /\ SubSeq(cs, 1, Len(prefix)) = prefix

endswith(cs, suffix) ==
    Len(cs) >= Len(suffix)
    /\ SubSeq(cs, Len(cs) - Len(suffix) + 1, Len(cs)) = suffix

Prefixes == {<<"$", "{", "{">>, <<"$", "{">>, <<"{", "{">>}

Suffixes == {<<"}", "}">>, <<"}">>}

\* looks_like_placeholder testing the raw value
looks_like_placeholder_raw(raw, name) ==
    IF raw = None THEN TRUE
    ELSE LET value == raw.str
         IN  \/ value = << >>
             \/ /\ \E prefix \in Prefixes : startswith(value, prefix)
                /\ \E suffix \in Suffixes : endswith(value, suffix)
             \/ name # None /\ value = <<"$", "{">> \o name.str \o <<"}">>

looks_like_placeholder(raw, name) ==
    IF raw = None THEN TRUE
    ELSE LET value == strip(raw.str)
         IN  \/ value = << >>
             \/ /\ \E prefix \in Prefixes : startswith(value, prefix)
                /\ \E suffix \in Suffixes : endswith(value, suffix)
             \/ name # None /\ value = <<"$", "{">> \o name.str \o <<"}">>

\* _coalesce_env(name, default), value being os.getenv(name)
_coalesce_env(value, name, default) ==
    IF looks_like_placeholder(value, name) THEN default
    ELSE Str(strip(value.str))

\* the environment-backed fields of Settings and their defaults
SettingsDefaults ==
    [DATABASE_URL |-> Str(<<"sqlite:///./xrp_intel.db">>),
     REDIS_URL |-> Str(<<"redis://localhost:6379/0">>)]


\* ------------------------------------------------------------------------
\* Inputs of the engine calls
\* ------------------------------------------------------------------------
MaxLevels == 2

MaxEvents == 2

MaxPoints == 3

MaxShort == 3

MaxLen == 31

SeqsUpTo(S, n) == UNION {[1..k -> S] : k \in 0..n}

EmptyDict == [k \in {} |-> 0]

\* 50 + 10*zscore is not confined to [0,100]
FlowScores == {Flt(-10), Flt(0), Flt(60), Flt(100), Flt(120)}

OIScores == {Flt(0), Flt(55), Flt(100)}

VolumeScores == {Flt(-10), Flt(0), Flt(50), Flt(100), Flt(120)}

ManipulationScores == {Flt(0), Flt(20), Flt(100)}

RegulatoryScores == {Flt(0), Flt(40), Flt(100)}

WeightsOf(f, o, v, m, r) ==
    [flow |-> Rat(f, 100), oi |-> Rat(o, 100), volume |-> Rat(v, 100),
     manipulation |-> Rat(m, 100), regulatory |-> Rat(r, 100)]

\* weight maps whose five weights are non-negative and sum to 1.0
ValidWeightMaps ==
    {WeightsOf(30, 25, 20, 15, 10), WeightsOf(100, 0, 0, 0, 0),
     WeightsOf(0, 0, 0, 100, 0), WeightsOf(20, 20, 20, 20, 20)}

WeightInputs ==
    ValidWeightMaps
    \cup {None, EmptyDict, WeightsOf(100, 100, 100, 100, 100),
          WeightsOf(200, -100, 0, 0, 0), [flow |-> Flt(1)]}

OIValues == {None, Flt(0), Flt(1000)}

FundingValues == {None, Rat(2, 100)}

LSValues == {None, Flt(0), Rat(12, 10)}

OIPoint(o, f, l) == [oi |-> o, funding |-> f, ls_ratio |-> l]

OIPoints ==
    {OIPoint(o, Rat(2, 100), l) : o \in OIValues, l \in LSValues}
    \cup {OIPoint(o, f, None) : o \in OIValues, f \in FundingValues}
    \cup {OIPoint(Flt(1000), Rat(1, 100), Rat(11, 10)),
          OIPoint(Flt(1200), Rat(2, 100), Rat(12, 10)),
          OIPoint(Flt(1200), Flt(2), Rat(12, 10)),
          OIPoint(Flt(1200), Flt(-2), Rat(12, 10))}

TagValues == {Flt(0), Rat(1, 4), Flt(1), Flt(3)}

\* classification mappings, with any of the keys missing
TagDicts ==
    {EmptyDict}
    \cup {[regulatory_threat |-> t] : t \in TagValues}
    \cup {[regulatory_support |-> u] : u \in TagValues}
    \cup {[regulatory_threat |-> t, regulatory_support |-> u,
           neutral_unclear |-> Flt(0)] : t \in TagValues, u \in TagValues}

Quantities == {Flt(0), Flt(50), Flt(100)}

Levels == SeqsUpTo({<<Rat(1, 2), qty>> : qty \in Quantities}, MaxLevels)

Books ==
    {EmptyDict}
    \cup {[bids |-> b] : b \in Levels}
    \cup {[asks |-> a] : a \in Levels}
    \cup {[bids |-> b, asks |-> a] : b \in Levels, a \in Levels}

DepthValues ==
    {Flt(-2), Flt(-1), Rat(-3, 4), Rat(-1, 2), Rat(-1, 4), Flt(0),
     Rat(1, 4), Rat(1, 2), Rat(3, 4), Flt(1), Flt(2)}

StatsInputs ==
    {EmptyDict, [bid_volume |-> Flt(1), ask_volume |-> Flt(1)]}
    \cup {[depth_imbalance |-> d] : d \in DepthValues}
    \cup {o.value : o \in {x \in {summarize_order_book(b) : b \in Books} :
                                x.kind = "return"}}

\* the zscore n/d
ZOf(n, d) == [sgn |-> Sgn(n) * Sgn(d), sq |-> Rat(n * n, d * d)]

\* zscores on, between and beyond the thresholds; 29/sqrt(30) is the largest
\* a window of 30 gives
RegimeZs ==
    {ZOf(n, 10) : n \in {-20, -10, -8, -5, 0, 5, 8, 10, 20}}
    \cup {[sgn |-> 1, sq |-> Rat(841, 30)], [sgn |-> -1, sq |-> Rat(841, 30)]}

Thresholds == {Flt(-1), RegimeLow, Flt(0), Rat(5, 10), RegimeHigh, Flt(1)}

MaxEntries == 2

Tokens == {None, Str(""), Str("hf_token")}

LabelScores == {Flt(0), Rat(1, 4), Rat(9, 10)}

Entries ==
    {[label |-> l, score |-> x] : l \in {"NEG", "POS", "NEU", "LABEL_0"},
                                  x \in LabelScores}
    \cup {[label |-> "NEG"], [score |-> Rat(9, 10)]}

\* requests.post: the connection fails, the request times out, or the
\* service answers with a status code and a body
Responses ==
    {Raise("ConnectionError"), Raise("Timeout")}
    \cup {Return([status_code |-> c, json |-> << >>]) : c \in {401, 503}}
    \cup {Return([status_code |-> 200, json |-> data]) :
             data \in SeqsUpTo(Entries, MaxEntries)}

MaxChars == 4

Chars == Whitespace \cup {"$", "{", "}", "a", "DATABASE_URL"}

\* what os.getenv gives: None for an unset variable, else its value
EnvValues ==
    {None}
    \cup {Str(cs) : cs \in SeqsUpTo(Chars, MaxChars)}
    \cup {Str(<<"$", "{", "{", "Postgres.DATABASE_URL", "}", "}">>),
          Str(<<"redis://default:", "$", "{", "{", "Redis.REDIS_PASSWORD",
                "}", "}", "@localhost:6379/0">>),
          Str(<<" ", "postgresql://db/xrp", "\t">>)}

\* 0.1 and 0.9 are no binary fractions: the floats they denote are rounded
SeriesValues == {Flt(0), Flt(1), Lit(1, 10), Lit(9, 10), NonNumeric, None}

\* k copies of a followed by n - k copies of b
Step(n, k, a, b) == [i \in 1..n |-> IF i <= k THEN a ELSE b]

StepValues == {Flt(0), Flt(1)}

StepSeries ==
    {Step(n, k, a, b) : n \in 1..MaxLen, k \in 0..MaxLen,
                        a \in StepValues, b \in StepValues}

SeriesInputs ==
    SeqsUpTo(SeriesValues, MaxShort)
    \cup StepSeries
    \cup {<<NonNumeric>> \o s : s \in StepSeries}
    \cup {Step(10, 10, Flt(100), Flt(100)) \o <<Flt(200)>>}

\* ------------------------------------------------------------------------
\* Inputs of the analytics cycle: what the queries and the order-book
\* request of one cycle can return
\* ------------------------------------------------------------------------
CycleLens == {1, 2, MaxLen - 1, MaxLen}

\* flat series and series whose last observation jumps
CycleSeries ==
    {<< >>}
    \cup UNION {{Step(n, k, a, b) : k \in {n - 1, n},
                                    a \in StepValues, b \in StepValues} :
                n \in CycleLens}

CycleMetrics ==
    {<< >>,
     <<OIPoint(Flt(1000), Rat(1, 100), Rat(11, 10)),
       OIPoint(Flt(1200), Rat(2, 100), Rat(12, 10))>>,
     <<OIPoint(Flt(1000), Rat(1, 100), Rat(11, 10)),
       OIPoint(None, Rat(2, 100), Rat(12, 10))>>,
     <<OIPoint(Flt(0), None, None), OIPoint(Flt(1200), Flt(2), Rat(12, 10))>>}

EventRow(type, tags) == [type |-> type, tags |-> tags]

CycleEvents ==
    {<< >>,
     <<EventRow("regulatory",
                [regulatory_threat |-> Flt(1), regulatory_support |-> Flt(0),
                 neutral_unclear |-> Flt(0)])>>,
     <<EventRow("news",
                [regulatory_threat |-> Flt(1), regulatory_support |-> Flt(0),
                 neutral_unclear |-> Flt(0)])>>,
     <<EventRow("regulatory", None),
       EventRow("regulatory", [regulatory_support |-> Flt(3)])>>}

CycleBooks ==
    {EmptyDict,
     [bids |-> << <<Rat(1, 2), Flt(100)>> >>,
      asks |-> << <<Rat(6, 10), Flt(50)>> >>],
     [bids |-> << <<Rat(1, 2), Flt(100)>> >>],
     [asks |-> << <<Rat(6, 10), Flt(100)>> >>]}

\* ------------------------------------------------------------------------
\* State
\* ------------------------------------------------------------------------
VARIABLES
    op, args, ret,          \* engine call: function, arguments, outcome
    pc,                     \* position of analytics_worker.run_once
    data,                   \* rows returned by _load_recent_data
    sig,                    \* flow_sig, vol_sig and oi_score of the cycle
    order_book,             \* response of fetch_order_book
    composite_scores,       \* rows of the composite_scores table
    cache,                  \* Redis keys written, with their payloads
    main_args,              \* worker whose main runs, with loop and interval
    main_pc,                \* position of that main
    cycles,                 \* outcomes of the run_once calls main has made
    slept,                  \* seconds main has spent in time.sleep
    ingest_pc,              \* position of inflow_worker.run_once
    db_enabled,             \* what _session_factory_ready returned
    api,                    \* responses fetched in the ingestion cycle
    ingest,                 \* ohlcv, derivatives, exchange_flows of run_once
    db,                     \* rows of ohlcv, derivatives_metrics, exchange_flows
    sched_pc,               \* position of scheduler.main
    ticks,                  \* per tick, the stages run and how each ended
    sched_slept,            \* seconds scheduler.main has spent in time.sleep
    retry_args,             \* attempts and delay of the retry call
    retry_pc,               \* position of retry
    retry_calls,            \* outcomes of the calls of action, in order
    retry_sleeps,           \* arguments of the time.sleep calls, in order
    retry_ret               \* outcome of retry

engineVars == <<op, args, ret>>

cycleVars == <<pc, data, sig, order_book, composite_scores, cache>>

workerVars == <<main_args, main_pc, cycles, slept>>

ingestVars == <<ingest_pc, db_enabled, api, ingest, db>>

schedulerVars == <<sched_pc, ticks, sched_slept>>

retryVars == <<retry_args, retry_pc, retry_calls, retry_sleeps, retry_ret>>

vars ==
    <<op, args, ret, pc, data, sig, order_book, composite_scores, cache,
      main_args, main_pc, cycles, slept,
      ingest_pc, db_enabled, api, ingest, db,
      sched_pc, ticks, sched_slept,
      retry_args, retry_pc, retry_calls, retry_sleeps, retry_ret>>

Init ==
    /\ op = "none"
    /\ args = EmptyDict
    /\ ret = Return(None)
    /\ pc = "start"
    /\ data = None
    /\ sig = None
    /\ order_book = None
    /\ composite_scores = << >>
    /\ cache = EmptyDict
    /\ main_args = None
    /\ main_pc = "none"
    /\ cycles = << >>
    /\ slept = 0
    /\ ingest_pc = "start"
    /\ db_enabled = None
    /\ api = EmptyDict
    /\ ingest = EmptyDict
    /\ db = [ohlcv |-> << >>, derivatives_metrics |-> << >>,
             exchange_flows |-> << >>]
    /\ sched_pc = "none"
    /\ ticks = << >>
    /\ sched_slept = 0
    /\ retry_args = None
    /\ retry_pc = "none"
    /\ retry_calls = << >>
    /\ retry_sleeps = << >>
    /\ retry_ret = None

\* ------------------------------------------------------------------------
\* Engine calls: the call made, its arguments and its outcome.  The engine
\* keeps no state between calls, so a behaviour is one call from idle.
\* ------------------------------------------------------------------------
Call_aggregate_scores ==
    /\ op = "none"
    /\ \E f \in FlowScores, o \in OIScores, v \in VolumeScores,
          m \in ManipulationScores, r \in RegulatoryScores,
          w \in WeightInputs :
        /\ op' = "aggregate_scores"
        /\ args' = [flow_score |-> f, oi_score |-> o, volume_score |-> v,
                    manipulation_score |-> m, regulatory_score |-> r,
                    weights |-> w]
        /\ ret' = aggregate_scores(f, o, v, m, r, w)
        /\ UNCHANGED <<cycleVars, workerVars, ingestVars, schedulerVars, retryVars>>

Call_compute_oi_leverage_score ==
    /\ op = "none"
    /\ \E metrics \in SeqsUpTo(OIPoints, MaxPoints) :
        /\ op' = "compute_oi_leverage_score"
        /\ args' = [metrics |-> metrics]
        /\ ret' = compute_oi_leverage_score(metrics)
        /\ UNCHANGED <<cycleVars, workerVars, ingestVars, schedulerVars, retryVars>>

Call_compute_regulatory_score ==
    /\ op = "none"
    /\ \E events \in SeqsUpTo(TagDicts, MaxEvents) :
        /\ op' = "compute_regulatory_score"
        /\ args' = [events |-> events]
        /\ ret' = compute_regulatory_score(events)
        /\ UNCHANGED <<cycleVars, workerVars, ingestVars, schedulerVars, retryVars>>

Call_compute_manipulation_hint ==
    /\ op = "none"
    /\ \E stats \in StatsInputs, spike \in BOOLEAN :
        /\ op' = "compute_manipulation_hint"
        /\ args' = [order_book_stats |-> stats, volume_spike |-> spike]
        /\ ret' = compute_manipulation_hint(stats, spike)
        /\ UNCHANGED <<cycleVars, workerVars, ingestVars, schedulerVars, retryVars>>

Call_summarize_order_book ==
    /\ op = "none"
    /\ \E book \in Books :
        /\ op' = "summarize_order_book"
        /\ args' = [book |-> book]
        /\ ret' = summarize_order_book(book)
        /\ UNCHANGED <<cycleVars, workerVars, ingestVars, schedulerVars, retryVars>>

Call_compute_zscore ==
    /\ op = "none"
    /\ \E series \in SeriesInputs :
        /\ op' = "compute_zscore"
        /\ args' = [series |-> series]
        /\ ret' = compute_zscore(series)
        /\ UNCHANGED <<cycleVars, workerVars, ingestVars, schedulerVars, retryVars>>

Call_compute_volume_signal ==
    /\ op = "none"
    /\ \E volumes \in SeriesInputs :
        /\ op' = "compute_volume_signal"
        /\ args' = [volumes |-> volumes]
        /\ ret' = compute_volume_signal(volumes)
        /\ UNCHANGED <<cycleVars, workerVars, ingestVars, schedulerVars, retryVars>>

Call_compute_flow_signal ==
    /\ op = "none"
    /\ \E net_flows \in SeriesInputs :
        /\ op' = "compute_flow_signal"
        /\ args' = [net_flows |-> net_flows]
        /\ ret' = compute_flow_signal(net_flows)
        /\ UNCHANGED <<cycleVars, workerVars, ingestVars, schedulerVars, retryVars>>

\* classify_regime(zscore, low, high); the defaults are one of the pairs
Call_classify_regime ==
    /\ op = "none"
    /\ \E zscore \in RegimeZs, low \in Thresholds, high \in Thresholds :
        /\ op' = "classify_regime"
        /\ args' = [zscore |-> zscore, low |-> low, high |-> high]
        /\ ret' = Return(classify_regime(zscore, low, high))
        /\ UNCHANGED <<cycleVars, workerVars, ingestVars, schedulerVars, retryVars>>

Call_classify_headline ==
    /\ op = "none"
    /\ \E hf_token \in Tokens, response \in Responses :
        /\ op' = "classify_headline"
        /\ args' = [hf_token |-> hf_token, response |-> response]
        /\ ret' = classify_headline(hf_token, response)
        /\ UNCHANGED <<cycleVars, workerVars, ingestVars, schedulerVars, retryVars>>

\* Settings.database_url, Settings.redis_url
Call_coalesce_env ==
    /\ op = "none"
    /\ \E name \in DOMAIN SettingsDefaults, value \in EnvValues :
        /\ op' = "_coalesce_env"
        /\ args' = [name |-> name, default |-> SettingsDefaults[name],
                    environ |-> value]
        /\ ret' = Return(_coalesce_env(value, Str(<<name>>),
                                       SettingsDefaults[name]))
        /\ UNCHANGED <<cycleVars, workerVars, ingestVars, schedulerVars, retryVars>>

Next ==
    \/ Call_aggregate_scores
    \/ Call_compute_oi_leverage_score
    \/ Call_compute_regulatory_score
    \/ Call_compute_manipulation_hint
    \/ Call_summarize_order_book
    \/ Call_compute_zscore
    \/ Call_compute_volume_signal
    \/ Call_compute_flow_signal
    \/ Call_classify_regime
    \/ Call_classify_headline
    \/ Call_coalesce_env

Spec == Init /\ [][Next]_vars

\* ------------------------------------------------------------------------
\* workers/analytics_worker.py: one run_once
\* ------------------------------------------------------------------------
\* _load_recent_data returns the rows of the last 48 hours, or the query fails
LoadRecentData ==
    /\ pc = "start"
    /\ \/ \E flows \in CycleSeries, ohlcv \in CycleSeries,
             oi \in CycleMetrics, events \in CycleEvents :
            /\ data' = [flows |-> flows, oi |-> oi, ohlcv |-> ohlcv,
                        events |-> events]
            /\ pc' = "loaded"
       \/ /\ pc' = "failed"
          /\ UNCHANGED data
    /\ UNCHANGED <<sig, order_book, composite_scores, cache>>
    /\ UNCHANGED <<engineVars, workerVars, ingestVars, schedulerVars, retryVars>>

\* lines 73-82: flow_sig, vol_sig, oi_score; an exception leaves run_once
ComputeSignals ==
    /\ pc = "loaded"
    /\ \E flow_sig \in {compute_flow_signal(data.flows)},
          vol_sig \in {compute_volume_signal(data.ohlcv)},
          oi_score \in {compute_oi_leverage_score(data.oi)} :
        IF flow_sig.kind = "raise" \/ vol_sig.kind = "raise"
           \/ oi_score.kind = "raise"
        THEN /\ pc' = "failed"
             /\ UNCHANGED sig
        ELSE /\ pc' = "computed"
             /\ sig' = [flow_sig |-> flow_sig.value,
                        vol_sig |-> vol_sig.value,
                        oi_score |-> oi_score.value]
    /\ UNCHANGED <<data, order_book, composite_scores, cache>>
    /\ UNCHANGED <<engineVars, workerVars, ingestVars, schedulerVars, retryVars>>

\* binance_client.fetch_order_book returns a book or raises
FetchOrderBook ==
    /\ pc = "computed"
    /\ \/ \E book \in CycleBooks :
            /\ order_book' = book
            /\ pc' = "fetched"
       \/ /\ pc' = "failed"
          /\ UNCHANGED order_book
    /\ UNCHANGED <<data, sig, composite_scores, cache>>
    /\ UNCHANGED <<engineVars, workerVars, ingestVars, schedulerVars, retryVars>>

\* [e.tags or {} for e in events if e.type == "regulatory"]
RegEvents(events) ==
    LET keep == SelectSeq(events, LAMBDA e : e.type = "regulatory")
    IN  [i \in 1..Len(keep) |->
           IF keep[i].tags = None \/ DOMAIN keep[i].tags = {}
           THEN EmptyDict ELSE keep[i].tags]

\* _save_score storing the manipulation score as it is cached, unscaled
CompositeRow_unscaled(flow_sig, vol_sig, oi_score, manipulation_score, regulatory_score) ==
    LET flow == Add(Flt(50), Mul(ZToNum(flow_sig.zscore), Flt(10)))
        volume == Add(Flt(50), Mul(ZToNum(vol_sig.zscore), Flt(10)))
        manipulation == Mul(manipulation_score, Flt(100))
    IN  [flow_score |-> flow,
         oi_score |-> oi_score,
         volume_score |-> volume,
         manipulation_score |-> manipulation_score,
         regulatory_score |-> regulatory_score,
         overall_score |->
             aggregate_scores(flow, oi_score, volume, manipulation,
                              regulatory_score, None).value]

\* the CompositeScore row _save_score builds
CompositeRow(flow_sig, vol_sig, oi_score, manipulation_score, regulatory_score) ==
    LET flow == Add(Flt(50), Mul(ZToNum(flow_sig.zscore), Flt(10)))
        volume == Add(Flt(50), Mul(ZToNum(vol_sig.zscore), Flt(10)))
        manipulation == Mul(manipulation_score, Flt(100))
    IN  [flow_score |-> flow,
         oi_score |-> oi_score,
         volume_score |-> volume,
         manipulation_score |-> manipulation,
         regulatory_score |-> regulatory_score,
         overall_score |->
             aggregate_scores(flow, oi_score, volume, manipulation,
                              regulatory_score, None).value]

\* the row run_once hands to the session, given the order-book summary
CycleRow(order_book_stats) ==
    LET volume_spike == ZCmp(sig.vol_sig.zscore, Rat(15, 10)) > 0
        manipulation_hint ==
            compute_manipulation_hint(order_book_stats, volume_spike).value
        reg_score == compute_regulatory_score(RegEvents(data.events)).value
    IN  CompositeRow(sig.flow_sig, sig.vol_sig, sig.oi_score,
                     manipulation_hint.risk_score, reg_score)

\* lines 84-89 and _save_score up to the commit of the row, which may fail
SaveScoreCommit ==
    /\ pc = "fetched"
    /\ LET stats == summarize_order_book(order_book)
       IN  \/ /\ stats.kind = "return"
              /\ composite_scores' =
                     Append(composite_scores, CycleRow(stats.value))
              /\ pc' = "committed"
           \/ /\ pc' = "failed"
              /\ UNCHANGED composite_scores
    /\ UNCHANGED <<data, sig, order_book, cache>>
    /\ UNCHANGED <<engineVars, workerVars, ingestVars, schedulerVars, retryVars>>

\* _save_score: cache_json("latest:score", ...), which may fail
CacheLatestScore ==
    /\ pc = "committed"
    /\ \/ /\ cache' =
               [k \in DOMAIN cache \cup {"latest:score"} |->
                  IF k = "latest:score"
                  THEN [flow |-> sig.flow_sig, volume |-> sig.vol_sig,
                        oi_score |-> sig.oi_score,
                        overall |->
                            composite_scores[Len(composite_scores)].overall_score]
                  ELSE cache[k]]
          /\ pc' = "done"
       \/ /\ pc' = "failed"
          /\ UNCHANGED cache
    /\ UNCHANGED <<data, sig, order_book, composite_scores>>
    /\ UNCHANGED <<engineVars, workerVars, ingestVars, schedulerVars, retryVars>>

NextAnalytics ==
    \/ LoadRecentData
    \/ ComputeSignals
    \/ FetchOrderBook
    \/ SaveScoreCommit
    \/ CacheLatestScore

SpecAnalytics == Init /\ [][NextAnalytics]_vars


\* ------------------------------------------------------------------------
\* workers/analytics_worker.py, inflow_worker.py, news_worker.py: main
\* ------------------------------------------------------------------------
MaxCycles == 4

\* default interval of each worker's main, in seconds
WorkerIntervals == [analytics |-> 600, inflow |-> 300, news |-> 1800]

\* run_once returns, raises an Exception, or is interrupted by an exception
\* that is no Exception (KeyboardInterrupt, SystemExit)
CycleOutcomes == {"return", "Exception", "KeyboardInterrupt"}

\* main(loop, interval) is entered; the inflow and news workers first log
\* the database status, which handles its own exceptions
Main ==
    /\ main_pc = "none"
    /\ \E worker \in DOMAIN WorkerIntervals, loop \in BOOLEAN :
        main_args' = [worker |-> worker, loop |-> loop,
                      interval |-> WorkerIntervals[worker]]
    /\ main_pc' = "run_once"
    /\ UNCHANGED <<cycles, slept>>
    /\ UNCHANGED <<engineVars, cycleVars, ingestVars, schedulerVars, retryVars>>

\* main with run_once outside a try block
RunOnce_uncaught ==
    /\ main_pc = "run_once"
    /\ Len(cycles) < MaxCycles
    /\ \E outcome \in CycleOutcomes :
        /\ cycles' = Append(cycles, outcome)
        /\ main_pc' = IF outcome = "return" THEN "after" ELSE "raised"
    /\ UNCHANGED <<main_args, slept>>
    /\ UNCHANGED <<engineVars, cycleVars, ingestVars, schedulerVars, retryVars>>

\* try: run_once() except Exception: logger.exception(...)
RunOnce ==
    /\ main_pc = "run_once"
    /\ Len(cycles) < MaxCycles
    /\ \E outcome \in CycleOutcomes :
        /\ cycles' = Append(cycles, outcome)
        /\ main_pc' = IF outcome = "KeyboardInterrupt" THEN "raised"
                      ELSE "after"
    /\ UNCHANGED <<main_args, slept>>
    /\ UNCHANGED <<engineVars, cycleVars, ingestVars, schedulerVars, retryVars>>

\* if not loop: break
Break ==
    /\ main_pc = "after"
    /\ ~main_args.loop
    /\ main_pc' = "returned"
    /\ UNCHANGED <<main_args, cycles, slept>>
    /\ UNCHANGED <<engineVars, cycleVars, ingestVars, schedulerVars, retryVars>>

\* time.sleep(interval), then the next turn of while True
Sleep ==
    /\ main_pc = "after"
    /\ main_args.loop
    /\ slept' = slept + main_args.interval
    /\ main_pc' = "run_once"
    /\ UNCHANGED <<main_args, cycles>>
    /\ UNCHANGED <<engineVars, cycleVars, ingestVars, schedulerVars, retryVars>>

NextWorkers ==
    \/ Main
    \/ RunOnce
    \/ Break
    \/ Sleep

SpecWorkers == Init /\ [][NextWorkers]_vars

\* ------------------------------------------------------------------------
\* workers/inflow_worker.py: one run_once
\* ------------------------------------------------------------------------
\* SessionLocal: not configured, a factory whose call raises, a working one
SessionFactories == {"None", "raises", "ok"}

\* SessionLocal is not None, and SessionLocal() returns a session
_session_factory_ready(SessionLocal) == SessionLocal = "ok"

\* a block `session = _get_session(); with session.begin(): ...`: no
\* session, the block commits, or the block raises
SessionOutcomes == {"None", "commit", "raise"}

\* d with d[k] = v
With(d, k, v) == [j \in DOMAIN d \cup {k} |-> IF j = k THEN v ELSE d[j]]

Reverse(xs) == [i \in 1..Len(xs) |-> xs[Len(xs) + 1 - i]]

Trade(price, qty) == [price |-> price, qty |-> qty]

TradeLists ==
    {<< >>,
     <<Trade(Rat(1, 2), Flt(100))>>,
     <<Trade(Rat(1, 2), Flt(100)), Trade(Rat(6, 10), Flt(50))>>,
     <<Trade(Rat(6, 10), Flt(50)), Trade(Rat(1, 2), Flt(100))>>,
     <<[qty |-> Flt(100)]>>,
     <<Trade(NonNumeric, Flt(100))>>}

\* float(t["price"]) and float(t["qty"]) succeed for every trade
Floatable(trades) ==
    \A i \in 1..Len(trades) :
        /\ {"price", "qty"} \subseteq DOMAIN trades[i]
        /\ IsNum(trades[i].price)
        /\ IsNum(trades[i].qty)

RECURSIVE MaxOf(_)
MaxOf(xs) == IF Len(xs) = 1 THEN xs[1] ELSE NumMax(xs[1], MaxOf(Tail(xs)))

RECURSIVE MinOf(_)
MinOf(xs) == IF Len(xs) = 1 THEN xs[1] ELSE NumMin(xs[1], MinOf(Tail(xs)))

\* the OHLCV row of a non-empty list of trades, without its timestamp
OhlcvRow(trades) ==
    LET prices == [i \in 1..Len(trades) |-> trades[i].price]
        volumes == [i \in 1..Len(trades) |-> trades[i].qty]
    IN  [open |-> prices[1], high |-> MaxOf(prices), low |-> MinOf(prices),
         close |-> prices[Len(prices)], volume |-> SumNum(volumes),
         source |-> "binance-trades"]

OIResponses ==
    {EmptyDict,
     [sumOpenInterest |-> Flt(1000), sumOpenInterestValue |-> Flt(500)],
     [sumOpenInterest |-> Flt(0), sumOpenInterestValue |-> Flt(500)],
     [sumOpenInterestValue |-> Flt(500)]}

FundingResponses == {EmptyDict, [lastFundingRate |-> Rat(1, 100)]}

LSResponses == {EmptyDict, [longShortRatio |-> Rat(12, 10)]}

\* a or b, on numbers
Or(a, b) == IF Truthy(a) THEN a ELSE b

\* the DerivativesMetric row of the three responses, without its timestamp
MetricRow(oi, funding, ls) ==
    [exchange |-> "binance",
     oi |-> Or(Or(Get(oi, "sumOpenInterest", Flt(0)),
                  Get(oi, "sumOpenInterestValue", Flt(0))), Flt(0)),
     funding |-> Get(funding, "lastFundingRate", Flt(0)),
     ls_ratio |-> Get(ls, "longShortRatio", Flt(1)),
     volume |-> Or(Get(oi, "sumOpenInterestValue", Flt(0)), Flt(0))]

PyDict(d) == [dict |-> d]

PyList(l) == [list |-> l]

FlowEntries ==
    {<< >>,
     <<[exchange |-> "binance", direction |-> "out",
        amount_xrp |-> Flt(100), net_flow_xrp |-> Flt(-100)]>>,
     <<[exchange |-> "binance", direction |-> "out",
        amount_xrp |-> Flt(100), net_flow_xrp |-> Flt(-100)],
       [amount_xrp |-> Flt(50)]>>}

\* what deepseek_client.fetch_market_intel returns, or its exception
IntelOutcomes ==
    {Raise("HTTPError"), Return(PyList(<< >>)), Return(PyDict(EmptyDict))}
    \cup {Return(PyDict([exchange_flows |-> f])) : f \in FlowEntries}

\* intel.get("exchange_flows", []) if isinstance(intel, dict) else [],
\* intel being {} when the request failed
FlowsOf(outcome) ==
    IF outcome.kind = "raise" THEN << >>
    ELSE IF "dict" \notin DOMAIN outcome.value THEN << >>
    ELSE Get(outcome.value.dict, "exchange_flows", << >>)

\* the ExchangeFlow rows of the flows, without their timestamps
FlowRows(flows) ==
    [i \in 1..Len(flows) |->
       [exchange |-> Get(flows[i], "exchange", "unknown"),
        direction |-> Get(flows[i], "direction", "in"),
        amount_xrp |-> Get(flows[i], "amount_xrp", Flt(0)),
        net_flow_xrp |->
            Get(flows[i], "net_flow_xrp", Get(flows[i], "amount_xrp", Flt(0)))]]

\* db_enabled = _session_factory_ready()
SessionFactoryReady ==
    /\ ingest_pc = "start"
    /\ \E SessionLocal \in SessionFactories :
        db_enabled' = _session_factory_ready(SessionLocal)
    /\ ingest_pc' = "trades"
    /\ UNCHANGED <<api, ingest, db>>
    /\ UNCHANGED <<engineVars, cycleVars, workerVars, schedulerVars, retryVars>>

\* trades = binance_client.fetch_recent_trades(), which may raise
FetchRecentTrades ==
    /\ ingest_pc = "trades"
    /\ \/ \E trades \in TradeLists :
            /\ api' = With(api, "trades", trades)
            /\ ingest_pc' = "ohlcv"
       \/ /\ ingest_pc' = "failed"
          /\ UNCHANGED api
    /\ UNCHANGED <<db_enabled, ingest, db>>
    /\ UNCHANGED <<engineVars, cycleVars, workerVars, schedulerVars, retryVars>>

\* the end of a _save_ function that built rows for a table and returns
\* value: the rows are added in a session if db_enabled, and run_once
\* goes on to next unless the session's block raised
SaveAndReturn(table, rows, local, value, next) ==
    \/ /\ ~db_enabled \/ rows = << >>
       /\ UNCHANGED db
       /\ ingest' = With(ingest, local, value)
       /\ ingest_pc' = next
    \/ /\ db_enabled /\ rows # << >>
       /\ \E session \in SessionOutcomes :
            /\ db' = IF session = "commit"
                     THEN With(db, table, db[table] \o rows) ELSE db
            /\ ingest' = IF session = "raise" THEN ingest
                         ELSE With(ingest, local, value)
            /\ ingest_pc' = IF session = "raise" THEN "failed" ELSE next

\* ohlcv = _save_ohlcv_from_trades(trades, db_enabled=db_enabled)
SaveOhlcvFromTrades ==
    /\ ingest_pc = "ohlcv"
    /\ IF api.trades = << >>
       THEN SaveAndReturn("ohlcv", << >>, "ohlcv", EmptyDict, "derivatives")
       ELSE IF ~Floatable(api.trades)
       THEN /\ ingest_pc' = "failed"
            /\ UNCHANGED <<ingest, db>>
       ELSE SaveAndReturn("ohlcv", <<OhlcvRow(api.trades)>>, "ohlcv",
                          OhlcvRow(api.trades), "derivatives")
    /\ UNCHANGED <<db_enabled, api>>
    /\ UNCHANGED <<engineVars, cycleVars, workerVars, schedulerVars, retryVars>>

\* derivatives = _save_derivatives_metrics(db_enabled=db_enabled); each of
\* its three requests may raise
SaveDerivativesMetrics ==
    /\ ingest_pc = "derivatives"
    /\ \/ \E oi \in OIResponses, funding \in FundingResponses,
             ls \in LSResponses :
            /\ api' = With(api, "derivatives",
                           [oi |-> oi, funding |-> funding, ls |-> ls])
            /\ SaveAndReturn("derivatives_metrics",
                             <<MetricRow(oi, funding, ls)>>, "derivatives",
                             MetricRow(oi, funding, ls), "exchange_flows")
       \/ /\ ingest_pc' = "failed"
          /\ UNCHANGED <<api, ingest, db>>
    /\ UNCHANGED db_enabled
    /\ UNCHANGED <<engineVars, cycleVars, workerVars, schedulerVars, retryVars>>

\* exchange_flows = _save_exchange_flows(db_enabled=db_enabled)
SaveExchangeFlows ==
    /\ ingest_pc = "exchange_flows"
    /\ \E intel \in IntelOutcomes :
        /\ api' = With(api, "intel", intel)
        /\ SaveAndReturn("exchange_flows", FlowRows(FlowsOf(intel)),
                         "exchange_flows", FlowRows(FlowsOf(intel)), "cache")
    /\ UNCHANGED db_enabled
    /\ UNCHANGED <<engineVars, cycleVars, workerVars, schedulerVars, retryVars>>

\* _cache_latest_api_data writing only when the database is enabled
CacheLatestApiData_db_only ==
    /\ ingest_pc = "cache"
    /\ \/ /\ cache' = IF db_enabled
                      THEN With(cache, "inflow:latest",
                                [ohlcv |-> ingest.ohlcv,
                                 derivatives |-> ingest.derivatives,
                                 exchange_flows |-> ingest.exchange_flows])
                      ELSE cache
          /\ ingest_pc' = "snapshot"
       \/ /\ ingest_pc' = "failed"
          /\ UNCHANGED cache
    /\ UNCHANGED <<db_enabled, api, ingest, db>>
    /\ UNCHANGED <<pc, data, sig, order_book, composite_scores>>
    /\ UNCHANGED <<engineVars, workerVars, schedulerVars, retryVars>>

\* _cache_latest_api_data(ohlcv, derivatives, exchange_flows); cache_json
\* may raise
CacheLatestApiData ==
    /\ ingest_pc = "cache"
    /\ \/ /\ cache' = With(cache, "inflow:latest",
                           [ohlcv |-> ingest.ohlcv,
                            derivatives |-> ingest.derivatives,
                            exchange_flows |-> ingest.exchange_flows])
          /\ ingest_pc' = "snapshot"
       \/ /\ ingest_pc' = "failed"
          /\ UNCHANGED cache
    /\ UNCHANGED <<db_enabled, api, ingest, db>>
    /\ UNCHANGED <<pc, data, sig, order_book, composite_scores>>
    /\ UNCHANGED <<engineVars, workerVars, schedulerVars, retryVars>>

\* the payload of "dashboard:snapshot": the latest rows of the four
\* tables, newest first (the limits of 50 and 200 rows are not reached)
SnapshotPayload ==
    [scores |-> Reverse(composite_scores),
     flows |-> Reverse(db.exchange_flows),
     oi |-> Reverse(db.derivatives_metrics),
     price |-> Reverse(db.ohlcv)]

\* _snapshot_to_cache(db_enabled=db_enabled): returns early without a
\* database or a session; the queries and cache_json may raise
SnapshotToCache ==
    /\ ingest_pc = "snapshot"
    /\ \/ /\ ~db_enabled
          /\ ingest_pc' = "done"
          /\ UNCHANGED cache
       \/ /\ db_enabled
          /\ \E session \in SessionOutcomes :
               \/ /\ session = "None"
                  /\ ingest_pc' = "done"
                  /\ UNCHANGED cache
               \/ /\ session = "commit"
                  /\ cache' = With(cache, "dashboard:snapshot", SnapshotPayload)
                  /\ ingest_pc' = "done"
               \/ /\ session \in {"commit", "raise"}
                  /\ ingest_pc' = "failed"
                  /\ UNCHANGED cache
    /\ UNCHANGED <<db_enabled, api, ingest, db>>
    /\ UNCHANGED <<pc, data, sig, order_book, composite_scores>>
    /\ UNCHANGED <<engineVars, workerVars, schedulerVars, retryVars>>

NextInflow ==
    \/ SessionFactoryReady
    \/ FetchRecentTrades
    \/ SaveOhlcvFromTrades
    \/ SaveDerivativesMetrics
    \/ SaveExchangeFlows
    \/ CacheLatestApiData
    \/ SnapshotToCache

SpecInflow == Init /\ [][NextInflow]_vars

\* ------------------------------------------------------------------------
\* workers/scheduler.py: main
\* ------------------------------------------------------------------------
MaxTicks == 3

\* main(interval: int = 900)
SchedulerInterval == 900

\* run_ingest, run_news, run_analytics, in the order of the try block
Stages == <<"run_ingest", "run_news", "run_analytics">>

\* position after the stage at index i has returned
AfterStage(i) == IF i < Len(Stages) THEN Stages[i + 1] ELSE "sleep"

\* ticks with [stage, outcome] added to the tick that is running
Logged(stage, outcome) ==
    [ticks EXCEPT ![Len(ticks)] =
        Append(@, [stage |-> stage, outcome |-> outcome])]

\* main() is entered: the first turn of while True logs the tick
SchedulerMain ==
    /\ sched_pc = "none"
    /\ ticks' = << << >> >>
    /\ sched_pc' = Stages[1]
    /\ UNCHANGED sched_slept
    /\ UNCHANGED <<engineVars, cycleVars, workerVars, ingestVars, retryVars>>

\* the stage at index i called outside the try block
RunStage_uncaught(i) ==
    /\ sched_pc = Stages[i]
    /\ \E outcome \in CycleOutcomes :
        /\ ticks' = Logged(Stages[i], outcome)
        /\ sched_pc' = IF outcome = "return" THEN AfterStage(i) ELSE "raised"
    /\ UNCHANGED sched_slept
    /\ UNCHANGED <<engineVars, cycleVars, workerVars, ingestVars, retryVars>>

\* the stage at index i of the try block: it returns and the next
\* statement runs, or it raises and `except Exception` ends the block
RunStage(i) ==
    /\ sched_pc = Stages[i]
    /\ \E outcome \in CycleOutcomes :
        /\ ticks' = Logged(Stages[i], outcome)
        /\ sched_pc' = IF outcome = "return" THEN AfterStage(i)
                       ELSE IF outcome = "Exception" THEN "sleep"
                       ELSE "raised"
    /\ UNCHANGED sched_slept
    /\ UNCHANGED <<engineVars, cycleVars, workerVars, ingestVars, retryVars>>

RunIngest == RunStage(1)

RunNews == RunStage(2)

RunAnalytics == RunStage(3)

\* time.sleep(interval), then the next turn of while True
SchedulerSleep ==
    /\ sched_pc = "sleep"
    /\ Len(ticks) < MaxTicks
    /\ sched_slept' = sched_slept + SchedulerInterval
    /\ ticks' = Append(ticks, << >>)
    /\ sched_pc' = Stages[1]
    /\ UNCHANGED <<engineVars, cycleVars, workerVars, ingestVars, retryVars>>

NextScheduler ==
    \/ SchedulerMain
    \/ RunIngest
    \/ RunNews
    \/ RunAnalytics
    \/ SchedulerSleep

SpecScheduler == Init /\ [][NextScheduler]_vars

\* ------------------------------------------------------------------------
\* core/utils.py: retry
\* ------------------------------------------------------------------------
MaxAttempts == 3

\* delay: float = 2.0
Delays == {Flt(0), Rat(1, 2), Flt(2)}

\* exceptions `except Exception` catches, and one it does not
Exceptions == {"ConnectionError", "Timeout"}

\* what one call of action does: it returns a value, or it raises
ActionOutcomes ==
    {Return(None), Return(Flt(1))}
    \cup {Raise(e) : e \in Exceptions \cup {"KeyboardInterrupt"}}

Caught(outcome) == outcome.kind = "raise" /\ outcome.exc \in Exceptions

\* retry(action, attempts, delay) is entered; an empty range ends the loop
\* at once and the function returns None
Retry ==
    /\ retry_pc = "none"
    /\ \E attempts \in 0..MaxAttempts, delay \in Delays :
        /\ retry_args' = [attempts |-> attempts, delay |-> delay]
        /\ retry_pc' = IF attempts >= 1 THEN "call" ELSE "returned"
        /\ retry_ret' = IF attempts >= 1 THEN retry_ret ELSE Return(None)
    /\ UNCHANGED <<retry_calls, retry_sleeps>>
    /\ UNCHANGED <<engineVars, cycleVars, workerVars, ingestVars, schedulerVars>>

\* the loop body sleeping delay after every failure before the last
Attempt_constant ==
    /\ retry_pc = "call"
    /\ \E outcome \in ActionOutcomes :
        LET attempt == Len(retry_calls) + 1
        IN  /\ retry_calls' = Append(retry_calls, outcome)
            /\ IF Caught(outcome) /\ attempt # retry_args.attempts
               THEN /\ retry_sleeps' = Append(retry_sleeps, retry_args.delay)
                    /\ retry_pc' = "call"
                    /\ UNCHANGED retry_ret
               ELSE /\ retry_ret' = outcome
                    /\ retry_pc' = IF outcome.kind = "return"
                                   THEN "returned" ELSE "raised"
                    /\ UNCHANGED retry_sleeps
    /\ UNCHANGED retry_args
    /\ UNCHANGED <<engineVars, cycleVars, workerVars, ingestVars, schedulerVars>>

\* one turn of the for loop: action() returns and retry returns its value;
\* or it raises an Exception, which is raised again on the last attempt and
\* followed by time.sleep(delay * attempt) otherwise; an exception that is
\* no Exception leaves retry
Attempt ==
    /\ retry_pc = "call"
    /\ \E outcome \in ActionOutcomes :
        LET attempt == Len(retry_calls) + 1
        IN  /\ retry_calls' = Append(retry_calls, outcome)
            /\ IF Caught(outcome) /\ attempt # retry_args.attempts
               THEN /\ retry_sleeps' =
                          Append(retry_sleeps,
                                 Mul(retry_args.delay, Flt(attempt)))
                    /\ retry_pc' = "call"
                    /\ UNCHANGED retry_ret
               ELSE /\ retry_ret' = outcome
                    /\ retry_pc' = IF outcome.kind = "return"
                                   THEN "returned" ELSE "raised"
                    /\ UNCHANGED retry_sleeps
    /\ UNCHANGED retry_args
    /\ UNCHANGED <<engineVars, cycleVars, workerVars, ingestVars, schedulerVars>>

NextRetry ==
    \/ Retry
    \/ Attempt

SpecRetry == Init /\ [][NextRetry]_vars


\* ------------------------------------------------------------------------
\* Properties
\* ------------------------------------------------------------------------
InRange(x, lo, hi) == NumLe(Flt(lo), x) /\ NumLe(x, Flt(hi))

\* five weights, none negative, summing to 1.0
IsValidWeightMap(w) ==
    /\ DOMAIN w = WeightKeys
    /\ \A k \in WeightKeys : NumSign(w[k]) >= 0
    /\ NumEq(Add(Add(Add(Add(w["flow"], w["oi"]), w["volume"]),
                     w["manipulation"]), w["regulatory"]), Flt(1))

SubScoresInRange(a) ==
    /\ InRange(a.flow_score, 0, 100)
    /\ InRange(a.oi_score, 0, 100)
    /\ InRange(a.volume_score, 0, 100)
    /\ InRange(a.manipulation_score, 0, 100)
    /\ InRange(a.regulatory_score, 0, 100)

\* C1: with a weight map of five non-negative weights summing to 1.0 and
\* all five scores in [0,100], aggregate_scores returns a value in [0,100].
C1_AggregateInRange ==
    (/\ op = "aggregate_scores"
     /\ IsValidWeightMap(args.weights)
     /\ SubScoresInRange(args))
    => (ret.kind = "return" /\ InRange(ret.value, 0, 100))

C1_Witness ==
    /\ op = "aggregate_scores"
    /\ IsValidWeightMap(args.weights)
    /\ args.weights # DefaultWeights
    /\ SubScoresInRange(args)
    /\ NumEq(args.flow_score, Flt(100))
    /\ NumEq(args.manipulation_score, Flt(100))
    /\ ret.kind = "return"
    /\ NumLt(Flt(0), ret.value)

\* 100 * (0.30*flow + 0.25*oi + 0.20*volume + 0.15*(100 - manipulation)
\*        + 0.10*regulatory) for whole-number scores, clamped to [0, 10000]
DefaultComposite100(a) ==
    LET t == 30 * a.flow_score.p + 25 * a.oi_score.p + 20 * a.volume_score.p
             + 15 * (100 - a.manipulation_score.p) + 10 * a.regulatory_score.p
    IN  IF t < 0 THEN 0 ELSE IF t > 10000 THEN 10000 ELSE t

IsScenario3(a) ==
    /\ a.flow_score = Flt(60)
    /\ a.oi_score = Flt(55)
    /\ a.volume_score = Flt(50)
    /\ a.manipulation_score = Flt(20)
    /\ a.regulatory_score = Flt(40)

\* C2: without a weight map aggregate_scores returns
\* clamp(0.30*flow + 0.25*oi + 0.20*volume + 0.15*(100 - manipulation)
\* + 0.10*regulatory, 0, 100); a higher manipulation score never gives a
\* higher result; aggregate_scores(60, 55, 50, 20, 40) is 57.75.
C2_DefaultWeightsFormula ==
    (op = "aggregate_scores" /\ args.weights = None)
    => /\ ret.kind = "return"
       /\ 100 * ret.value.p = DefaultComposite100(args) * ret.value.r
       /\ ret.value.q = 0 /\ ret.value.s = 0
       /\ IsScenario3(args) => ret.value = Rat(5775, 100)
       /\ \A m \in ManipulationScores :
            NumLe(args.manipulation_score, m)
            => NumLe(aggregate_scores(args.flow_score, args.oi_score,
                                      args.volume_score, m,
                                      args.regulatory_score, None).value,
                     ret.value)

C2_Witness ==
    /\ op = "aggregate_scores"
    /\ args.weights = None
    /\ IsScenario3(args)
    /\ ret = Return(Rat(5775, 100))


RowInRange(row) ==
    /\ InRange(row.flow_score, 0, 100)
    /\ InRange(row.oi_score, 0, 100)
    /\ InRange(row.volume_score, 0, 100)
    /\ InRange(row.manipulation_score, 0, 100)
    /\ InRange(row.regulatory_score, 0, 100)
    /\ InRange(row.overall_score, 0, 100)

\* C3: every composite score row an analytics cycle persists has its five
\* sub-scores and its overall score within [0,100].
C3_PersistedScoresInRange ==
    \A i \in 1..Len(composite_scores) : RowInRange(composite_scores[i])


\* C4: compute_oi_leverage_score never raises and returns a number in
\* [0,100] for every sequence of points whose oi, funding and ls_ratio are
\* each a number or absent.
C4_OIScoreNeverRaises ==
    op = "compute_oi_leverage_score"
    => (ret.kind = "return" /\ InRange(ret.value, 0, 100))

HasNonNumeric(series) == \E i \in 1..Len(series) : ~IsNum(series[i])

SeriesArg ==
    IF op = "compute_zscore" THEN args.series
    ELSE IF op = "compute_volume_signal" THEN args.volumes
    ELSE args.net_flows

\* C5: a series with a non-numeric value makes compute_zscore,
\* compute_volume_signal and compute_flow_signal end in InvalidInputError,
\* neither a neutral default nor a propagated arithmetic or type exception.
C5_NonNumericIsInvalidInput ==
    (/\ op \in {"compute_zscore", "compute_volume_signal",
                "compute_flow_signal"}
     /\ HasNonNumeric(SeriesArg))
    => ret = Raise("InvalidInputError")

AllPointsNumeric(metrics) ==
    \A i \in 1..Len(metrics) :
        IsNum(metrics[i].oi) /\ IsNum(metrics[i].funding)
        /\ IsNum(metrics[i].ls_ratio)

\* (latest.oi - prev.oi) / prev.oi * 100 over the last two points; 0 for a
\* single point or prev.oi = 0
OIChangePct(metrics) ==
    LET n == Len(metrics)
    IN  IF n < 2 \/ NumSign(metrics[n - 1].oi) = 0 THEN Flt(0)
        ELSE Div(Mul(Flt(100), Sub(metrics[n].oi, metrics[n - 1].oi)),
                 metrics[n - 1].oi)

\* clamp(50 + 0.2*change + 0.3*(funding*100) + 0.1*skew, 0, 100), written
\* as 50 + change/5 + 30*funding + skew/10
OIScoreOf(metrics, skew) ==
    Clip(Add(Add(Flt(50), Div(OIChangePct(metrics), Flt(5))),
             Add(Mul(Flt(30), metrics[Len(metrics)].funding),
                 Div(skew, Flt(10)))),
         Flt(0), Flt(100))

IsScenario2(metrics) ==
    metrics = <<OIPoint(Flt(1000), Rat(1, 100), Rat(11, 10)),
                OIPoint(Flt(1200), Rat(2, 100), Rat(12, 10))>>

\* C6 as stated: for a non-empty sequence of points the score is
\* clamp(50 + 0.2*oi_change_pct + 0.3*(latest.funding*100)
\* + 0.1*((latest.ls_ratio - 1)*100), 0, 100).
C6_OIScoreFormula_Original ==
    (/\ op = "compute_oi_leverage_score"
     /\ Len(args.metrics) > 0
     /\ AllPointsNumeric(args.metrics))
    => ret = Return(OIScoreOf(args.metrics,
                 Mul(Flt(100),
                     Sub(args.metrics[Len(args.metrics)].ls_ratio, Flt(1)))))

\* (latest.ls_ratio - 1) * 100, and 0 when latest.ls_ratio is 0
LSSkew(metrics) ==
    LET ls == metrics[Len(metrics)].ls_ratio
    IN  IF NumSign(ls) = 0 THEN Flt(0) ELSE Mul(Flt(100), Sub(ls, Flt(1)))

\* C6 (amended): for a non-empty sequence of numeric points the score is
\* clamp(50 + 0.2*oi_change_pct + 0.3*(latest.funding*100) + 0.1*ls_skew,
\* 0, 100), where ls_skew is (latest.ls_ratio - 1)*100 and is 0 when
\* latest.ls_ratio is 0, and oi_change_pct comes from the last two points
\* only (0 for a single point or prev.oi = 0); scenario 2 gives 56.6.
C6_OIScoreFormula ==
    (/\ op = "compute_oi_leverage_score"
     /\ Len(args.metrics) > 0
     /\ AllPointsNumeric(args.metrics))
    => /\ ret = Return(OIScoreOf(args.metrics, LSSkew(args.metrics)))
       /\ IsScenario2(args.metrics) => ret.value = Rat(566, 10)

C6_Witness ==
    /\ op = "compute_oi_leverage_score"
    /\ Len(args.metrics) = 3
    /\ AllPointsNumeric(args.metrics)
    /\ IsScenario2(Window(args.metrics, 2))
    /\ NumEq(args.metrics[1].oi, Flt(1200))
    /\ ret = Return(Rat(566, 10))

\* the sum over all events of key k, an event without the key adding 0
RECURSIVE TagSum(_, _)
TagSum(events, k) ==
    IF Len(events) = 0 THEN Flt(0)
    ELSE Add(IF k \in DOMAIN Head(events) THEN Head(events)[k] ELSE Flt(0),
             TagSum(Tail(events), k))

\* C7: for a non-empty batch compute_regulatory_score returns
\* clamp(50 + 50*(support - threat), 0, 100), support and threat being the
\* sums of regulatory_support and regulatory_threat divided by the number of
\* events (a missing key adds 0 and still counts); the result is in [0,100].
C7_RegulatoryFormula ==
    (op = "compute_regulatory_score" /\ Len(args.events) > 0)
    => /\ ret.kind = "return"
       /\ InRange(ret.value, 0, 100)
       /\ NumEq(ret.value,
                Clip(Add(Flt(50),
                         Div(Mul(Flt(50),
                                 Sub(TagSum(args.events, "regulatory_support"),
                                     TagSum(args.events, "regulatory_threat"))),
                             Flt(Len(args.events)))),
                     Flt(0), Flt(100)))

C7_Witness ==
    /\ op = "compute_regulatory_score"
    /\ Len(args.events) = 2
    /\ "regulatory_support" \notin DOMAIN args.events[1]
    /\ "regulatory_support" \in DOMAIN args.events[2]
    /\ NumLt(Flt(50), ret.value)
    /\ NumLt(ret.value, Flt(100))

\* C8: risk_score = clamp(0.5*|depth_imbalance| + (0.5 if volume_spike
\* else 0), 0, 1) with depth_imbalance 0.0 when the key is absent; it is in
\* [0,1]; compute_manipulation_hint({}, False) has risk_score 0.0,
\* rapid_wall_change False and note "Calm".
C8_RiskScoreFormula ==
    op = "compute_manipulation_hint"
    => LET d == IF "depth_imbalance" \in DOMAIN args.order_book_stats
                THEN args.order_book_stats["depth_imbalance"] ELSE Flt(0)
           magnitude == NumMax(d, Neg(d))
           \* 2 * risk = min(2, |d| + (1 if spike else 0))
           twice == NumMin(Flt(2),
                           Add(magnitude,
                               IF args.volume_spike THEN Flt(1) ELSE Flt(0)))
       IN  /\ ret.kind = "return"
           /\ NumEq(Mul(Flt(2), ret.value.risk_score), twice)
           /\ InRange(ret.value.risk_score, 0, 1)
           /\ (args.order_book_stats = EmptyDict /\ ~args.volume_spike)
              => /\ ret.value.risk_score = Flt(0)
                 /\ ret.value.rapid_wall_change = FALSE
                 /\ ret.value.note = "Calm"

C8_Witness ==
    /\ op = "compute_manipulation_hint"
    /\ "depth_imbalance" \in DOMAIN args.order_book_stats
    /\ NumLt(args.order_book_stats["depth_imbalance"], Flt(0))
    /\ args.volume_spike
    /\ NumLt(Rat(1, 2), ret.value.risk_score)
    /\ NumLt(ret.value.risk_score, Flt(1))

\* C9: rapid_wall_change holds exactly when |depth_imbalance| > 0.5; the
\* note is "Depth skew + spike" exactly when rapid_wall_change and
\* volume_spike hold, "Skewed depth" exactly when rapid_wall_change holds
\* without volume_spike, and "Calm" otherwise.
C9_WallChangeAndNote ==
    op = "compute_manipulation_hint"
    => LET d == IF "depth_imbalance" \in DOMAIN args.order_book_stats
                THEN args.order_book_stats["depth_imbalance"] ELSE Flt(0)
           wall == NumLt(Rat(1, 2), d) \/ NumLt(d, Rat(-1, 2))
       IN  /\ ret.kind = "return"
           /\ ret.value.rapid_wall_change = wall
           /\ (ret.value.note = "Depth skew + spike")
              <=> (wall /\ args.volume_spike)
           /\ (ret.value.note = "Skewed depth")
              <=> (wall /\ ~args.volume_spike)
           /\ (ret.value.note = "Calm") <=> ~wall
           /\ ret.value.note \in {"Depth skew + spike", "Skewed depth", "Calm"}

C9_Witness ==
    /\ op = "compute_manipulation_hint"
    /\ args.order_book_stats = [depth_imbalance |-> Rat(1, 2)]
    /\ args.volume_spike
    /\ ret.value.rapid_wall_change = FALSE
    /\ ret.value.note = "Calm"

\* the whole-number sum of the quantities of a side of the book
RECURSIVE QuantitySum(_)
QuantitySum(levels) ==
    IF Len(levels) = 0 THEN 0 ELSE levels[1][2].p + QuantitySum(Tail(levels))

BookSide(book, side) == IF side \in DOMAIN book THEN book[side] ELSE << >>

\* C10: for non-negative quantities depth_imbalance is
\* (bid_volume - ask_volume) / (bid_volume + ask_volume + 1e-9), lies in
\* [-1,1] and has the sign of bid_volume - ask_volume; a book without bids
\* and asks (or without the keys) gives 0 for both volumes and for
\* depth_imbalance, with no division-by-zero error.
C10_DepthImbalance ==
    op = "summarize_order_book"
    => LET bv == QuantitySum(BookSide(args.book, "bids"))
           av == QuantitySum(BookSide(args.book, "asks"))
       IN  /\ ret.kind = "return"
           /\ ret.value.bid_volume = Flt(bv)
           /\ ret.value.ask_volume = Flt(av)
           \* depth_imbalance * (bv + av + eps) = bv - av
           /\ NumEq(Mul(ret.value.depth_imbalance, Norm(bv + av, 1, 1, 0)),
                    Flt(bv - av))
           /\ InRange(ret.value.depth_imbalance, -1, 1)
           /\ NumSign(ret.value.depth_imbalance) = Sgn(bv - av)
           /\ (bv = 0 /\ av = 0) => ret.value.depth_imbalance = Flt(0)

C10_Witness ==
    /\ op = "summarize_order_book"
    /\ DOMAIN args.book = {}
    /\ ret = Return([bid_volume |-> Flt(0), ask_volume |-> Flt(0),
                     depth_imbalance |-> Flt(0)])


\* C11: for thresholds low < high classify_regime returns exactly one of
\* low, normal, high: high iff zscore >= high, low iff zscore <= low, normal
\* iff low < zscore < high; a zscore equal to a threshold is never normal.
C11_RegimeTotal ==
    (op = "classify_regime" /\ NumLt(args.low, args.high))
    => /\ ret.kind = "return"
       /\ ret.value \in {"low", "normal", "high"}
       /\ (ret.value = "high") <=> (ZCmp(args.zscore, args.high) >= 0)
       /\ (ret.value = "low") <=> (ZCmp(args.zscore, args.low) <= 0)
       /\ (ret.value = "normal")
            <=> (ZCmp(args.zscore, args.low) > 0
                 /\ ZCmp(args.zscore, args.high) < 0)
       /\ (ZCmp(args.zscore, args.low) = 0 \/ ZCmp(args.zscore, args.high) = 0)
            => ret.value # "normal"

\* a zscore of exactly 0.8 under the default thresholds is high
C11_Witness ==
    /\ op = "classify_regime"
    /\ args.low = RegimeLow /\ args.high = RegimeHigh
    /\ ZCmp(args.zscore, RegimeHigh) = 0
    /\ ret = Return("high")


\* C12: the regime of a VolumeSignal or FlowSignal, of an empty series or
\* not, is classify_regime with the default thresholds of the signal's own
\* zscore.
C12_RegimeOfOwnZscore ==
    (op \in {"compute_volume_signal", "compute_flow_signal"}
     /\ ret.kind = "return")
    => ret.value.regime
         = classify_regime(ret.value.zscore, RegimeLow, RegimeHigh)

\* a volume series whose last value jumps: zscore above 0.8, regime high
C12_Witness ==
    /\ op = "compute_volume_signal"
    /\ Len(args.volumes) > 0
    /\ ret.kind = "return"
    /\ ZCmp(ret.value.zscore, RegimeHigh) > 0
    /\ ret.value.regime = "high"


WindowOf(series) ==
    [i \in 1..(IF Len(series) > ZWindow THEN ZWindow ELSE Len(series)) |->
       series[i + (IF Len(series) > ZWindow THEN Len(series) - ZWindow ELSE 0)]]

AllEqual(xs) == \A i \in 1..Len(xs) : xs[i] = xs[1]

\* C13: compute_zscore returns exactly 0.0 for an empty series, for a single
\* element of any value, and when all the numbers of its window are equal.
C13_DegenerateZscoreIsZero ==
    (/\ op = "compute_zscore"
     /\ AllNumeric(WindowOf(args.series))
     /\ AllEqual(WindowOf(args.series)))
    => ret = Return(ZeroZ)


\* sign of a zscore
ZSign(z) == ZCmp(z, Flt(0))

TenThenLarger == Step(10, 10, Flt(100), Flt(100)) \o <<Flt(200)>>

\* C14 as stated: for a numeric sequence of length at least 2 whose values
\* are not all equal, the zscore has the sign of (last element - mean of the
\* sequence).
C14_SignOfLastMinusMean_Original ==
    (/\ op = "compute_zscore"
     /\ AllNumeric(args.series)
     /\ Len(args.series) >= 2
     /\ ~AllEqual(args.series))
    => /\ ret.kind = "return"
       /\ ZSign(ret.value)
            = NumSign(Sub(args.series[Len(args.series)], Mean(args.series)))

\* C14: when the last 30 elements are numbers, at least 2 and not all equal,
\* the zscore has the sign of (last element - arr.mean()), the mean numpy
\* computes over those last 30 elements: positive, negative or zero
\* together; ten equal values followed by a larger one give zscore > 0.
C14_SignOfLastMinusMean ==
    (/\ op = "compute_zscore"
     /\ AllNumeric(WindowOf(args.series))
     /\ Len(args.series) >= 2
     /\ ~AllEqual(WindowOf(args.series)))
    => /\ ret.kind = "return"
       /\ ZSign(ret.value)
            = Sgn(FSub(FromNum(args.series[Len(args.series)]),
                       FloatMean(WindowOf(args.series))).m)
       /\ args.series = TenThenLarger => ZSign(ret.value) = 1

\* ten values of 100 followed by 200: zscore > 0
C14_Witness ==
    /\ op = "compute_zscore"
    /\ args.series = TenThenLarger
    /\ ret.kind = "return"
    /\ ZSign(ret.value) = 1


\* C15: compute_zscore of a series is compute_zscore of its last
\* min(30, len) elements, whatever precedes them; the standard deviation is
\* the sample one (divisor n - 1): [0, 1] gives 0.5 / sqrt(0.5).
C15_WindowOnly ==
    op = "compute_zscore"
    => /\ ret = compute_zscore(WindowOf(args.series))
       /\ args.series = <<Flt(0), Flt(1)>>
            => ret = Return([sgn |-> 1, sq |-> Rat(1, 2)])

\* a string older than the last 30 elements is not looked at
C15_Witness ==
    /\ op = "compute_zscore"
    /\ Len(args.series) > ZWindow
    /\ args.series[1] = NonNumeric
    /\ ret.kind = "return"
    /\ ZSign(ret.value) # 0


\* the last 24 elements of a series of at least 24
Last24(volumes) == [i \in 1..24 |-> volumes[Len(volumes) - 24 + i]]

\* C16: for a non-empty volume series compute_volume_signal returns latest =
\* the last element and baseline = the mean of the last 24 elements when
\* there are at least 24, the mean of the whole series otherwise.
C16_BaselineAndLatest ==
    (/\ op = "compute_volume_signal"
     /\ Len(args.volumes) > 0
     /\ ret.kind = "return")
    => /\ ret.value.latest = args.volumes[Len(args.volumes)]
       /\ ret.value.baseline
            = ToNum(FloatMean(IF Len(args.volumes) >= 24
                              THEN Last24(args.volumes) ELSE args.volumes))

\* more than 24 volumes whose older part differs from the last 24
C16_Witness ==
    /\ op = "compute_volume_signal"
    /\ Len(args.volumes) > 24
    /\ ret.kind = "return"
    /\ args.volumes[Len(args.volumes) - 24] # args.volumes[Len(args.volumes)]
    /\ ret.value.baseline = args.volumes[Len(args.volumes)]


\* C17: on empty input compute_volume_signal returns (zscore 0, regime
\* normal, baseline 0, latest 0), compute_flow_signal (net_flow 0, zscore 0,
\* regime normal), compute_oi_leverage_score 50.0 and
\* compute_regulatory_score 25.0.
C17_EmptyDefaults ==
    /\ (op = "compute_volume_signal" /\ args.volumes = << >>)
        => ret = Return([zscore |-> ZeroZ, regime |-> "normal",
                         baseline |-> Flt(0), latest |-> Flt(0)])
    /\ (op = "compute_flow_signal" /\ args.net_flows = << >>)
        => ret = Return([net_flow |-> Flt(0), zscore |-> ZeroZ,
                         regime |-> "normal"])
    /\ (op = "compute_oi_leverage_score" /\ args.metrics = << >>)
        => ret = Return(Flt(50))
    /\ (op = "compute_regulatory_score" /\ args.events = << >>)
        => ret = Return(Flt(25))

\* the regulatory score of no events
C17_Witness ==
    /\ op = "compute_regulatory_score"
    /\ args.events = << >>
    /\ ret = Return(Flt(25))


\* the classifier cannot be used: no token, or the request fails
ClassifierUnavailable ==
    \/ args.hf_token \in {None, Str("")}
    \/ args.response.kind = "raise"
    \/ args.response.value.status_code >= 400

\* C18: classify_headline always yields a mapping with the keys
\* regulatory_threat, regulatory_support and neutral_unclear, and when the
\* classifier is unavailable (no token, or the request fails) the mapping is
\* the neutral default {0, 0, 1}, not an error.
C18_HeadlineAlwaysClassified ==
    op = "classify_headline"
    => /\ ret.kind = "return"
       /\ DOMAIN ret.value
            = {"regulatory_threat", "regulatory_support", "neutral_unclear"}
       /\ ClassifierUnavailable => ret.value = NeutralClassification


\* positions of the characters of cs that are not whitespace
Inked(cs) == {i \in 1..Len(cs) : cs[i] \notin Whitespace}

\* cs without its surrounding whitespace, for cs not blank
Trimmed(cs) ==
    LET first == CHOOSE i \in Inked(cs) : \A j \in Inked(cs) : i <= j
        last == CHOOSE i \in Inked(cs) : \A j \in Inked(cs) : j <= i
    IN  [i \in 1..(last - first + 1) |-> cs[first + i - 1]]

\* starts with "${{", "${" or "{{" and ends with "}}" or "}"
IsTemplate(cs) ==
    /\ Len(cs) >= 2
    /\ <<cs[1], cs[2]>> \in {<<"$", "{">>, <<"{", "{">>}
    /\ cs[Len(cs)] = "}"

\* C19: the configured value of DATABASE_URL or REDIS_URL is the built-in
\* default when the variable is unset, empty, whitespace only, or (without
\* its surrounding whitespace) a template placeholder, and otherwise the
\* variable's value without its surrounding whitespace;
\* DATABASE_URL="${{Postgres.DATABASE_URL}}" gives "sqlite:///./xrp_intel.db".
C19_ConfiguredValue ==
    op = "_coalesce_env"
    => /\ ret
            = Return(IF args.environ = None THEN args.default
                     ELSE IF Inked(args.environ.str) = {} THEN args.default
                     ELSE IF IsTemplate(Trimmed(args.environ.str))
                     THEN args.default
                     ELSE Str(Trimmed(args.environ.str)))
       /\ (/\ args.name = "DATABASE_URL"
           /\ args.environ
                = Str(<<"$", "{", "{", "Postgres.DATABASE_URL", "}", "}">>))
          => ret = Return(Str(<<"sqlite:///./xrp_intel.db">>))

\* a placeholder surrounded by whitespace gives the default
C19_Witness ==
    /\ op = "_coalesce_env"
    /\ args.environ = Str(<<" ", "{", "{", "}">>)
    /\ ret = Return(args.default)


\* C20: with loop=False main runs exactly one cycle and then returns,
\* whether the cycle returned or raised an Exception; with loop=True main
\* never returns, an Exception of a cycle is caught, and after every cycle,
\* failed or not, main sleeps the interval and starts another cycle.
C20_MainLoop ==
    [][/\ main_pc' # "none"
          => /\ ~main_args'.loop => Len(cycles') <= 1
             /\ main_pc' = "returned"
                  => (~main_args'.loop /\ Len(cycles') = 1)
       /\ (main_pc = "run_once" /\ Len(cycles') > Len(cycles)
           /\ cycles'[Len(cycles')] \in {"return", "Exception"})
          => main_pc' = "after"
       /\ (main_pc = "after" /\ ~main_args.loop)
          => (main_pc' = "returned" /\ cycles' = cycles /\ slept' = slept)
       /\ (main_pc = "after" /\ main_args.loop)
          => /\ main_pc' = "run_once"
             /\ slept' = slept + main_args.interval
             /\ cycles' = cycles]_vars

\* a looping worker whose first cycle failed has slept and run a second
C20_Witness ==
    /\ main_pc # "none"
    /\ main_args.loop
    /\ Len(cycles) = 2
    /\ cycles[1] = "Exception"
    /\ slept = main_args.interval


\* aggregate_scores with default weights on the sub-scores a row stores
OverallOf(row) ==
    aggregate_scores(row.flow_score, row.oi_score, row.volume_score,
                     row.manipulation_score, row.regulatory_score, None).value

LatestScoreCached == "latest:score" \in DOMAIN cache

\* C21: in one analytics cycle the composite score row is computed only
\* after the data load and the order-book fetch have returned; the
\* "latest:score" cache entry is written only after the row is committed;
\* the stored overall_score is aggregate_scores with default weights of the
\* five sub-scores of the same row; and a cycle in which the load, a signal,
\* the fetch, the commit or the cache write failed has no "latest:score"
\* entry.
C21_CycleOrder ==
    /\ composite_scores # << >>
       => (data # None /\ sig # None /\ order_book # None)
    /\ LatestScoreCached
       => (/\ pc = "done"
           /\ Len(composite_scores) = 1
           /\ cache["latest:score"].overall = composite_scores[1].overall_score)
    /\ \A i \in 1..Len(composite_scores) :
          composite_scores[i].overall_score = OverallOf(composite_scores[i])
    /\ pc = "failed" => ~LatestScoreCached

\* a finished cycle whose row stores a manipulation score above 0
C21_Witness ==
    /\ pc = "done"
    /\ LatestScoreCached
    /\ Len(composite_scores) = 1
    /\ NumSign(composite_scores[1].manipulation_score) > 0

\* a cycle whose cache write failed after its row was committed
C21_FailedWitness ==
    /\ pc = "failed"
    /\ Len(composite_scores) = 1

InflowLatestCached == "inflow:latest" \in DOMAIN cache

SnapshotCached == "dashboard:snapshot" \in DOMAIN cache

\* _session_factory_ready has returned False
DatabaseDown == ingest_pc # "start" /\ ~db_enabled

NoRowsWritten ==
    /\ db.ohlcv = << >>
    /\ db.derivatives_metrics = << >>
    /\ db.exchange_flows = << >>

\* the three dicts of the responses fetched in the cycle
FetchedData ==
    [ohlcv |-> IF api.trades = << >> THEN EmptyDict ELSE OhlcvRow(api.trades),
     derivatives |-> MetricRow(api.derivatives.oi, api.derivatives.funding,
                               api.derivatives.ls),
     exchange_flows |-> FlowRows(FlowsOf(api.intel))]

SnapshotAfterWrites ==
    SnapshotCached
    => (/\ db_enabled
        /\ ingest_pc = "done"
        /\ {"ohlcv", "derivatives", "exchange_flows"} \subseteq DOMAIN ingest
        /\ InflowLatestCached
        /\ cache["dashboard:snapshot"] = SnapshotPayload)

C22_ReadyWitness ==
    /\ SnapshotCached
    /\ cache["dashboard:snapshot"].price # << >>
    /\ cache["dashboard:snapshot"].oi # << >>
    /\ cache["dashboard:snapshot"].flows # << >>

\* the stages of a tick are the first stages of the try block, in its
\* order, and each but the last one run has returned
TickInOrder(tick) ==
    /\ Len(tick) <= Len(Stages)
    /\ \A i \in 1..Len(tick) :
        /\ tick[i].stage = Stages[i]
        /\ i < Len(tick) => tick[i].outcome = "return"

LastOutcome == ticks[Len(ticks)][Len(ticks[Len(ticks)])].outcome

\* C23: in every scheduler tick the stages run in the order ingest, news,
\* analytics, each only after the one before it returned; after a stage
\* that raised an Exception no later stage of the tick runs; and after a
\* tick, whether a stage failed or all returned, the only step of main is
\* to sleep the interval and start the next tick.
C23_SchedulerTicks ==
    [][/\ \A t \in 1..Len(ticks') : TickInOrder(ticks'[t])
       /\ (sched_pc = "sleep" /\ LastOutcome \in {"return", "Exception"})
          => /\ sched_pc' = "run_ingest"
             /\ ticks' = Append(ticks, << >>)
             /\ sched_slept' = sched_slept + SchedulerInterval
       /\ (sched_pc' = "sleep")
          => (ticks'[Len(ticks')][Len(ticks'[Len(ticks')])].outcome = "Exception"
              \/ Len(ticks'[Len(ticks')]) = Len(Stages))
       /\ (sched_pc \in {"run_ingest", "run_news", "run_analytics"}
           /\ ticks'[Len(ticks')][Len(ticks'[Len(ticks')])].outcome
                 \in {"return", "Exception"})
          => sched_pc' # "raised"]_vars

\* a tick whose news stage failed, followed by a tick that ran ingest again
C23_Witness ==
    /\ Len(ticks) = 2
    /\ Len(ticks[1]) = 2
    /\ ticks[1][2].outcome = "Exception"
    /\ Len(ticks[2]) >= 1
    /\ sched_slept = SchedulerInterval

\* the calls of action that ended in an Exception before the last attempt
FailedBeforeLast ==
    {k \in 1..Len(retry_calls) :
        Caught(retry_calls[k]) /\ k < retry_args.attempts}

\* C24: retry(action, attempts = n, delay = d) with n >= 1 calls action at
\* most n times, and no more after a call that returned; it returns the
\* value of the first call that returns; when all n calls raised an
\* Exception it raises the exception of the n-th call; and it has slept
\* d*k after the k-th failed call for k < n, and not after the n-th.
C24_Retry ==
    (retry_pc # "none" /\ retry_args.attempts >= 1)
    => (/\ Len(retry_calls) <= retry_args.attempts
        /\ \A k \in 1..(Len(retry_calls) - 1) : Caught(retry_calls[k])
        /\ retry_pc = "call" => FailedBeforeLast = 1..Len(retry_calls)
        /\ retry_pc = "returned"
           => (/\ retry_calls # << >>
               /\ retry_calls[Len(retry_calls)].kind = "return"
               /\ retry_ret = retry_calls[Len(retry_calls)])
        /\ (retry_pc = "raised" /\ Caught(retry_ret))
           => (/\ Len(retry_calls) = retry_args.attempts
               /\ retry_ret = retry_calls[retry_args.attempts])
        /\ Len(retry_sleeps) = Cardinality(FailedBeforeLast)
        /\ \A k \in 1..Len(retry_sleeps) :
             retry_sleeps[k] = Mul(retry_args.delay, Flt(k)))

\* three attempts with a delay of 2: two failures, slept 2 and 4, then a
\* third failure of another kind, which is the one raised
C24_Witness ==
    /\ retry_pc = "raised"
    /\ retry_args.attempts = 3
    /\ retry_args.delay = Flt(2)
    /\ Len(retry_calls) = 3
    /\ retry_calls[1] # retry_calls[3]
    /\ retry_ret = retry_calls[3]
    /\ retry_sleeps = <<Flt(2), Flt(4)>>

\* a second call that returned after a first that failed
C24_ReturnWitness ==
    /\ retry_pc = "returned"
    /\ Len(retry_calls) = 2
    /\ retry_ret = Return(Flt(1))
    /\ Len(retry_sleeps) = 1

====
